---- MODULE Spec2Model ----
(***************************************************************************)
(* agenthints: the disk cache (cache.ts), the registry client              *)
(* (registry.ts), the add and remove commands (commands/add.ts,            *)
(* commands/remove.ts), the agent table (agents.ts), path resolution       *)
(* (fs.ts) and the section transformer (transformer.ts).                   *)
(*                                                                         *)
(* Spec     the registry client over the cache store: every exported       *)
(*          operation of cache.ts and the three fetch operations of        *)
(*          registry.ts, one action each, with the clock, the network      *)
(*          response and the outcome of the disk write as inputs.          *)
(* SpecAdd  one invocation of the add command: index fetch, fan-out of the *)
(*          per-hint fetches, the join, the sequential write loop.         *)
(* SpecText calls of extractSection, removeSection and upsertSection on a  *)
(*          file text put together from characters, markers and sections.  *)
(* SpecRender   one call of transformForAgent or resolveAgentPath on an    *)
(*          agent configuration.                                           *)
(* SpecRemove   one invocation of the remove command on a prepared disk.   *)
(* SpecCommands one invocation of either command, add or remove.           *)
(* SpecSearch   calls of searchHints.                                      *)
(* SpecRace     one fetch of a hint content whose cache write runs while   *)
(*          another invocation clears the cache.                          *)
(***************************************************************************)
EXTENDS Integers, Sequences, FiniteSets, TLC

(***************************************************************************)
(* Bounds of the model.                                                    *)
(***************************************************************************)
\* how many times the clock advances in one behaviour
MaxTicks == 1

(***************************************************************************)
(* Program constants.                                                      *)
(***************************************************************************)
INDEX_TTL_MS == 5 * 60 * 1000
HINT_TTL_MS == 24 * 60 * 60 * 1000

(***************************************************************************)
(* Values.                                                                 *)
(***************************************************************************)
\* JavaScript undefined (an absent optional argument, an absent field)
Undefined == "undefined"
\* what arithmetic on a missing timestamp gives: Date.now() - undefined is NaN.
\* Timestamps written by the program are Date.now() >= 0, so a negative
\* number is free to stand for it.
NotANumber == 0 - 1

\* the hints the registry lists
RegistrySlugs == {"prisma", "zod"}
\* a hint path that climbs three directories up, as a registry may list it
EscapingSlug == "../../../evil"
\* the hint paths the add and remove commands are called with
CommandSlugs == RegistrySlugs \cup {EscapingSlug}
\* the hint the client operations are called with in Spec
Slugs == {"prisma"}
\* the hint files a metadata document can name (metadata.hint)
HintFiles == {"./hint.md", "./rules.md"}
\* SHA-256 digests (hex), all non-empty
Hashes == {"h1", "h2"}
\* hint texts the registry can serve for the hint file ./hint.md; for
\* another file of a hint it serves the text "c3"
Contents == {"c1", "c2"}
\* registry index documents and metadata documents the registry can serve
Indexes == {"idxA", "idxB"}
Metadatas == {"metaA", "metaB"}

\* createHash("sha256").update(content).digest("hex")
Sha256Of(content) ==
  CASE content = "c1" -> "h1"
    [] content = "c2" -> "h2"
    [] OTHER -> "h0"

\* the sha256 an index document declares for a hint (index.hints[].sha256);
\* Undefined when the index has no entry for the slug
IndexSha(index, slug) ==
  CASE index = "idxA" /\ slug = "prisma" -> "h1"
    [] index = "idxA" /\ slug = "zod" -> "h2"
    [] index = "idxB" /\ slug = "prisma" -> "h2"
    [] index = "idxA" /\ slug = EscapingSlug -> "h1"
    [] OTHER -> Undefined

(***************************************************************************)
(* Cache store (cache.ts).                                                 *)
(***************************************************************************)
\* getCachePath is join(cacheDir, key + ".json"): one file per key, so the
\* cache directory is a function from keys to file states.
IndexKey == <<"index">>
MetaKey(hintPath) == <<"hints", hintPath, "meta">>
ContentKey(hintPath) == <<"hints", hintPath, "content">>
KeysOf(slugs) == {IndexKey} \cup {MetaKey(s) : s \in slugs} \cup {ContentKey(s) : s \in slugs}
\* every file the cache directory can hold, and the ones Spec works on
AllCacheKeys == KeysOf(CommandSlugs)
CacheKeys == KeysOf(Slugs)

\* What a cache file can hold.
\*   missing   no file (readFile rejects with ENOENT)
\*   ioerror   a file that cannot be read (readFile rejects, e.g. EACCES)
\*   badjson   text that JSON.parse rejects (a truncated or garbled file)
\*   noshape   JSON that parses to an object without data and timestamp: {}
\*   entry     a CacheEntry as writeCache serialises it
File(kind, data, timestamp, sha256) ==
  [kind |-> kind, data |-> data, timestamp |-> timestamp, sha256 |-> sha256]
MissingFile == File("missing", Undefined, NotANumber, Undefined)
DamagedFile(kind) == File(kind, Undefined, NotANumber, Undefined)
EmptyCache == [k \in AllCacheKeys |-> MissingFile]

\* readCache: null when readFile or JSON.parse throws, otherwise whatever
\* JSON.parse returned, cast (not checked) to CacheEntry.
readCache(dir, key) ==
  CASE dir[key].kind \in {"missing", "ioerror", "badjson"} ->
         File("null", Undefined, NotANumber, Undefined)
    [] dir[key].kind = "noshape" -> File("object", Undefined, NotANumber, Undefined)
    [] OTHER -> File("object", dir[key].data, dir[key].timestamp, dir[key].sha256)

\* `cached &&`: null is falsy, every object is truthy
Truthy(cached) == cached.kind = "object"
\* `!expectedSha256`, `sha256 &&`: undefined is falsy, a digest is truthy
TruthyString(s) == s # Undefined

\* isExpired: Date.now() - timestamp >= ttlMs; every comparison with NaN is false
isExpired_Strict(timestamp, ttlMs, clock) ==
  IF timestamp = NotANumber THEN FALSE ELSE clock - timestamp > ttlMs
isExpired(timestamp, ttlMs, clock) ==
  IF timestamp = NotANumber THEN FALSE ELSE clock - timestamp >= ttlMs

\* Outcomes of the two disk calls of writeCache (mkdir, then writeFile):
\*   ok       both succeed
\*   EACCES   mkdir or the open of the file is refused: nothing is written
\*   ENOSPC   writeFile fails after truncating the file: a partial file stays
DiskOutcomes == {"ok", "EACCES", "ENOSPC"}

\* writeCache: the entry is {data, timestamp: Date.now(), sha256 if truthy}.
\* Returns [threw, dir]: whether the call rejected, and the directory after.
writeCache_NoSha(dir, clock, key, data, sha256, disk) ==
  CASE disk = "ok" ->
         [threw |-> FALSE,
          dir |-> [dir EXCEPT ![key] = File("entry", data, clock, Undefined)]]
    [] disk = "ENOSPC" ->
         [threw |-> TRUE, dir |-> [dir EXCEPT ![key] = DamagedFile("badjson")]]
    [] OTHER -> [threw |-> TRUE, dir |-> dir]
writeCache(dir, clock, key, data, sha256, disk) ==
  CASE disk = "ok" ->
         [threw |-> FALSE,
          dir |-> [dir EXCEPT ![key] = File("entry", data, clock,
                                          IF TruthyString(sha256) THEN sha256 ELSE Undefined)]]
    [] disk = "ENOSPC" ->
         [threw |-> TRUE, dir |-> [dir EXCEPT ![key] = DamagedFile("badjson")]]
    [] OTHER -> [threw |-> TRUE, dir |-> dir]

\* invalidateCache: unlink, every error ignored. unlinkOk is whether the
\* unlink succeeded.
invalidateCache(dir, key, unlinkOk) ==
  [threw |-> FALSE, dir |-> IF unlinkOk THEN [dir EXCEPT ![key] = MissingFile] ELSE dir]

\* clearCache: rm -rf of the cache directory, every error ignored.
clearCache(dir, rmOk) ==
  [threw |-> FALSE, dir |-> IF rmOk THEN EmptyCache ELSE dir]

(***************************************************************************)
(* Registry client (registry.ts).                                          *)
(***************************************************************************)
\* What one HTTP GET can come to:
\*   ok        a 2xx response whose body is read (and, for JSON, parsed)
\*   badbody   a 2xx response whose body cannot be read or parsed
\*   notfound  status 404
\*   error     any other non-2xx status
\*   neterr    fetch itself rejects (no response)
Response(kind, body) == [kind |-> kind, body |-> body]
NoResponse == Response("none", Undefined)
FailedResponses == {Response(k, Undefined) : k \in {"badbody", "notfound", "error", "neterr"}}

\* What reading a file of the local mirror can come to (local registry mode)
LocalReadsOf(bodies) == {Response("ok", b) : b \in bodies} \cup
                        {Response("enoent", Undefined), Response("badbody", Undefined)}

\* The outcome of one call: whether it threw and which error, the value
\* returned, the number of HTTP requests issued, the cache directory after
\* the call, and the inputs the call consumed (the response it got, the
\* outcome of the disk write it attempted).
Outcome(threw, error, value, net, dir, resp, disk) ==
  [threw |-> threw, error |-> error, value |-> value, net |-> net, dir |-> dir,
   resp |-> resp, disk |-> disk, message |-> <<>>]
Return(value, net, dir, resp, disk) == Outcome(FALSE, "none", value, net, dir, resp, disk)
Throw(error, net, dir, resp, disk) == Outcome(TRUE, error, Undefined, net, dir, resp, disk)
NoDisk == "none"

\* The local branch shared by the three fetch operations: readFile of the
\* mirror, then JSON.parse for index and metadata (parse); no cache, no
\* network. A hint file is returned as read, so for it a read that does not
\* give a body is a failed read.
ReadLocal(dir, localRead, parse) ==
  IF localRead.kind = "ok" THEN Return(localRead.body, 0, dir, localRead, NoDisk)
  ELSE Throw(IF localRead.kind = "enoent" \/ ~parse THEN "IOError" ELSE "ParseError",
             0, dir, localRead, NoDisk)

\* The messages of the two errors the client constructs, as their parts:
\* `Hint "${hintPath}" not found in registry. Run "agenthints list" to see
\* available hints.` and `Failed to fetch <what>: ${response.statusText}`
FetchErrorMessage(cacheKey, resp) ==
  <<IF cacheKey = IndexKey THEN "Failed to fetch registry index:"
    ELSE IF cacheKey[3] = "meta" THEN "Failed to fetch hint metadata:"
    ELSE "Failed to fetch hint content:",
    IF resp.kind = "notfound" THEN "Not Found" ELSE "Internal Server Error">>

\* The tail shared by the three fetch operations once the cache is not used:
\* the GET, the ok check, the body, writeCache, return.
\* sha256 is the third argument of writeCache (Undefined for index and metadata).
FetchAndCache_DropsEntryOnFailure(dir, clock, cacheKey, sha256, resp, disk, special404) ==
  IF resp.kind = "ok"
  THEN LET w == writeCache(dir, clock, cacheKey, resp.body, sha256, disk)
       IN IF w.threw THEN Throw("IOError", 1, w.dir, resp, disk)
          ELSE Return(resp.body, 1, w.dir, resp, disk)
  ELSE Throw(IF resp.kind = "neterr" THEN "NetworkError" ELSE "FetchError", 1,
             [dir EXCEPT ![cacheKey] = MissingFile], resp, NoDisk)
FetchAndCache(dir, clock, cacheKey, sha256, resp, disk, special404) ==
  CASE resp.kind = "neterr" -> Throw("NetworkError", 1, dir, resp, NoDisk)
    [] resp.kind = "notfound" ->
         IF special404
         THEN [Throw("NotFound", 1, dir, resp, NoDisk)
                 EXCEPT !.message = <<"Hint", cacheKey[2], "not found in registry.",
                                      "Run agenthints list to see available hints.">>]
         ELSE [Throw("FetchError", 1, dir, resp, NoDisk)
                 EXCEPT !.message = FetchErrorMessage(cacheKey, resp)]
    [] resp.kind = "error" ->
         [Throw("FetchError", 1, dir, resp, NoDisk)
            EXCEPT !.message = FetchErrorMessage(cacheKey, resp)]
    [] resp.kind = "badbody" -> Throw("ParseError", 1, dir, resp, NoDisk)
    [] OTHER ->
         LET w == writeCache(dir, clock, cacheKey, resp.body, sha256, disk)
         IN IF w.threw THEN Throw("IOError", 1, w.dir, resp, disk)
            ELSE Return(resp.body, 1, w.dir, resp, disk)

\* The cache test of fetchRegistryIndex and fetchHintMetadata:
\* cached && !isExpired(cached.timestamp, ttl)
CacheUsable(cached, ttlMs, clock) ==
  Truthy(cached) /\ ~isExpired(cached.timestamp, ttlMs, clock)

\* The cache test of fetchHintContent:
\* cached && !isExpired(...) && (!expectedSha256 || cached.sha256 === expectedSha256)
ContentCacheUsable_NoShaGate(cached, expectedSha256, clock) ==
  Truthy(cached) /\ ~isExpired(cached.timestamp, HINT_TTL_MS, clock)
ContentCacheUsable_ShaOnly(cached, expectedSha256, clock) ==
  /\ Truthy(cached)
  /\ (~isExpired(cached.timestamp, HINT_TTL_MS, clock) \/ cached.sha256 = expectedSha256)
  /\ (~TruthyString(expectedSha256) \/ cached.sha256 = expectedSha256)
ContentCacheUsable_ShaRequired(cached, expectedSha256, clock) ==
  /\ Truthy(cached)
  /\ ~isExpired(cached.timestamp, HINT_TTL_MS, clock)
  /\ cached.sha256 = expectedSha256
ContentCacheUsable(cached, expectedSha256, clock) ==
  /\ Truthy(cached)
  /\ ~isExpired(cached.timestamp, HINT_TTL_MS, clock)
  /\ (~TruthyString(expectedSha256) \/ cached.sha256 = expectedSha256)

fetchRegistryIndex_CacheBeforeLocal(local, dir, clock, resp, disk, localRead) ==
  LET cacheKey == IndexKey
      cached == readCache(dir, cacheKey)
  IN IF CacheUsable(cached, INDEX_TTL_MS, clock)
     THEN Return(cached.data, 0, dir, NoResponse, NoDisk)
     ELSE IF local THEN ReadLocal(dir, localRead, TRUE)
     ELSE FetchAndCache(dir, clock, cacheKey, Undefined, resp, disk, FALSE)
fetchRegistryIndex(local, dir, clock, resp, disk, localRead) ==
  IF local THEN ReadLocal(dir, localRead, TRUE)
  ELSE LET cacheKey == IndexKey
           cached == readCache(dir, cacheKey)
       IN IF CacheUsable(cached, INDEX_TTL_MS, clock)
          THEN Return(cached.data, 0, dir, NoResponse, NoDisk)
          ELSE FetchAndCache(dir, clock, cacheKey, Undefined, resp, disk, FALSE)

fetchHintMetadata_No404Case(local, dir, clock, hintPath, resp, disk, localRead) ==
  IF local THEN ReadLocal(dir, localRead, TRUE)
  ELSE LET cacheKey == MetaKey(hintPath)
           cached == readCache(dir, cacheKey)
       IN IF CacheUsable(cached, HINT_TTL_MS, clock)
          THEN Return(cached.data, 0, dir, NoResponse, NoDisk)
          ELSE FetchAndCache(dir, clock, cacheKey, Undefined, resp, disk, FALSE)
fetchHintMetadata(local, dir, clock, hintPath, resp, disk, localRead) ==
  IF local THEN ReadLocal(dir, localRead, TRUE)
  ELSE LET cacheKey == MetaKey(hintPath)
           cached == readCache(dir, cacheKey)
       IN IF CacheUsable(cached, HINT_TTL_MS, clock)
          THEN Return(cached.data, 0, dir, NoResponse, NoDisk)
          ELSE FetchAndCache(dir, clock, cacheKey, Undefined, resp, disk, TRUE)

fetchHintContent(local, dir, clock, hintPath, hintFile, expectedSha256, resp, disk, localRead) ==
  IF local THEN ReadLocal(dir, localRead, FALSE)
  ELSE LET cacheKey == ContentKey(hintPath)
           cached == readCache(dir, cacheKey)
       IN IF ContentCacheUsable(cached, expectedSha256, clock)
          THEN Return(cached.data, 0, dir, NoResponse, NoDisk)
          ELSE FetchAndCache(dir, clock, cacheKey, expectedSha256, resp, disk, FALSE)

(***************************************************************************)
(* Texts, the section transformer (transformer.ts), the agent table        *)
(* (agents.ts) and the file helpers (utils/fs.ts).                         *)
(***************************************************************************)
\* A text is a sequence of tokens <<kind, payload>>: a newline, a piece of
\* plain text, the start or end marker of a hint's section, an agent header.
NL == <<"nl", "">>
SP == <<"sp", "">>
Whitespace == {NL, SP}
Plain(s) == <<"text", s>>
\* the characters String.prototype.replace reads in a replacement string
Dollar == Plain("$")
Ampersand == Plain("&")
SectionStart(hintName) == <<"start", hintName>>
SectionEnd(hintName) == <<"end", hintName>>
HeaderOf(agentName, hintName) == <<"header:" \o agentName, hintName>>
EmptyText == <<>>
\* the text of a hint body the registry serves
TextOf(content) == <<Plain(content)>>

\* String.prototype.indexOf for a one-token needle, 0-based, -1 when absent
IndexOf(text, token) ==
  IF \E i \in 1..Len(text) : text[i] = token
  THEN (CHOOSE i \in 1..Len(text) :
          text[i] = token /\ \A j \in 1..(i - 1) : text[j] # token) - 1
  ELSE 0 - 1
\* String.prototype.slice(from, to), 0-based, end exclusive
Slice(text, from, to) == SubSeq(text, from + 1, to)

\* String.prototype.trim: leading and trailing whitespace removed
RECURSIVE TrimStart(_)
TrimStart(text) ==
  IF text # EmptyText /\ Head(text) \in Whitespace THEN TrimStart(Tail(text)) ELSE text
RECURSIVE TrimEnd(_)
TrimEnd(text) ==
  IF text # EmptyText /\ text[Len(text)] \in Whitespace
  THEN TrimEnd(SubSeq(text, 1, Len(text) - 1)) ELSE text
Trim(text) == TrimEnd(TrimStart(text))

\* whether pattern occurs in text at position i
Occurs(text, pattern, i) ==
  /\ i + Len(pattern) - 1 <= Len(text)
  /\ SubSeq(text, i, i + Len(pattern) - 1) = pattern

\* GetSubstitution of String.prototype.replace for a string pattern (no
\* capture groups): $$ is a dollar, $& the matched text, $ and a backtick the
\* text before the match, $ and a quote the text after it; any other dollar
\* stands for itself.
RECURSIVE Substitute(_, _, _, _)
Substitute(replacement, matched, before, after) ==
  IF replacement = EmptyText THEN EmptyText
  ELSE IF Head(replacement) = Dollar /\ Len(replacement) >= 2
          /\ replacement[2] \in {Dollar, Ampersand, Plain("backtick"), Plain("quote")}
  THEN (CASE replacement[2] = Dollar -> <<Dollar>>
          [] replacement[2] = Ampersand -> matched
          [] replacement[2] = Plain("backtick") -> before
          [] OTHER -> after)
       \o Substitute(SubSeq(replacement, 3, Len(replacement)), matched, before, after)
  ELSE <<Head(replacement)>> \o Substitute(Tail(replacement), matched, before, after)

\* String.prototype.replace(pattern, replacement), pattern and replacement
\* both strings: the first occurrence of pattern is replaced by the
\* substitution of replacement
Replace(text, pattern, replacement) ==
  IF \E i \in 1..Len(text) : Occurs(text, pattern, i)
  THEN LET i == CHOOSE k \in 1..Len(text) :
                  Occurs(text, pattern, k) /\ \A j \in 1..(k - 1) : ~Occurs(text, pattern, j)
           before == SubSeq(text, 1, i - 1)
           after == SubSeq(text, i + Len(pattern), Len(text))
       IN before \o Substitute(replacement, pattern, before, after) \o after
  ELSE text

\* replace(/\n{3,}/g, "\n\n"): every run of three or more newlines becomes two
RECURSIVE LeadingNewlines(_)
LeadingNewlines(text) ==
  IF text # EmptyText /\ Head(text) = NL THEN 1 + LeadingNewlines(Tail(text)) ELSE 0
RECURSIVE CollapseNewlines(_)
CollapseNewlines(text) ==
  IF text = EmptyText THEN EmptyText
  ELSE LET n == LeadingNewlines(text)
       IN IF n = 0 THEN <<Head(text)>> \o CollapseNewlines(Tail(text))
          ELSE (IF n >= 3 THEN <<NL, NL>> ELSE SubSeq(text, 1, n))
               \o CollapseNewlines(SubSeq(text, n + 1, Len(text)))

wrapInSection(content, hintName) ==
  <<SectionStart(hintName), NL>> \o content \o <<NL, SectionEnd(hintName)>>

\* String.prototype.lastIndexOf for a one-token needle
LastIndexOf(text, token) ==
  IF \E i \in 1..Len(text) : text[i] = token
  THEN (CHOOSE i \in 1..Len(text) :
          text[i] = token /\ \A j \in (i + 1)..Len(text) : text[j] # token) - 1
  ELSE 0 - 1

\* extractSection: [found, section]; found = FALSE is the null result
extractSection_LastEnd(fileContent, hintName) ==
  LET startIndex == IndexOf(fileContent, SectionStart(hintName))
      endIndex == LastIndexOf(fileContent, SectionEnd(hintName))
  IN IF startIndex = 0 - 1 \/ endIndex = 0 - 1 \/ startIndex >= endIndex
     THEN [found |-> FALSE, section |-> EmptyText]
     ELSE [found |-> TRUE, section |-> Slice(fileContent, startIndex, endIndex + 1)]
extractSection(fileContent, hintName) ==
  LET startIndex == IndexOf(fileContent, SectionStart(hintName))
      endIndex == IndexOf(fileContent, SectionEnd(hintName))
  IN IF startIndex = 0 - 1 \/ endIndex = 0 - 1 \/ startIndex >= endIndex
     THEN [found |-> FALSE, section |-> EmptyText]
     ELSE [found |-> TRUE, section |-> Slice(fileContent, startIndex, endIndex + 1)]

removeSection_TrimsWhenAbsent(fileContent, hintName) ==
  LET section == extractSection(fileContent, hintName)
  IN IF ~section.found THEN Trim(CollapseNewlines(fileContent))
     ELSE Trim(CollapseNewlines(Replace(fileContent, section.section, EmptyText)))
removeSection(fileContent, hintName) ==
  LET section == extractSection(fileContent, hintName)
  IN IF ~section.found THEN fileContent
     ELSE Trim(CollapseNewlines(Replace(fileContent, section.section, EmptyText)))

upsertSection_NoTrim(fileContent, hintName, newSection) ==
  LET existingSection == extractSection(fileContent, hintName)
      trimmedContent == fileContent
  IN IF existingSection.found
     THEN Replace(fileContent, existingSection.section, newSection)
     ELSE IF Len(trimmedContent) = 0 THEN newSection
     ELSE trimmedContent \o <<NL, NL>> \o newSection
upsertSection(fileContent, hintName, newSection) ==
  LET existingSection == extractSection(fileContent, hintName)
      trimmedContent == Trim(fileContent)
  IN IF existingSection.found
     THEN Replace(fileContent, existingSection.section, newSection)
     ELSE IF Len(trimmedContent) = 0 THEN newSection
     ELSE trimmedContent \o <<NL, NL>> \o newSection

\* An AgentConfig (agents.ts 12-18). A path is a sequence of pieces, the
\* placeholder {hint} a piece of its own. A header is absent, a string, or a
\* function of the hint name; a transform is absent or a function.
NoHeader == [kind |-> "none", text |-> EmptyText]
StaticHeader(t) == [kind |-> "static", text |-> t]
FunctionHeader == [kind |-> "function", text |-> EmptyText]
AgentConfig(key, path, header, appendMode, transform) ==
  [key |-> key, path |-> path, header |-> header, appendMode |-> appendMode,
   transform |-> transform]
Shared(key, file) == AgentConfig(key, <<file>>, NoHeader, TRUE, "none")
PerHint(key, dir, rules, ext, header) ==
  AgentConfig(key, <<dir, rules, "{hint}", ext>>, header, FALSE, "none")
\* The agent table. No row has a transform; cursor alone has a header.
agentRows ==
  {Shared("droid", "AGENTS.md"), Shared("claude", "CLAUDE.md"), Shared("codex", "AGENTS.md"),
   Shared("google", "GEMINI.md"), Shared("copilot", "AGENTS.md"),
   Shared("aider", "CONVENTIONS.md"), Shared("amp", "AGENT.md"),
   PerHint("augment", ".augment/", "rules/", ".md", NoHeader),
   AgentConfig("cline", <<".clinerules/", "{hint}", ".md">>, NoHeader, FALSE, "none"),
   PerHint("cursor", ".cursor/", "rules/", ".mdc", FunctionHeader),
   Shared("devin", "AGENTS.md"), Shared("goose", ".goosehints"), Shared("jules", "AGENTS.md"),
   Shared("junie", "AGENTS.md"),
   PerHint("kilo-code", ".kilocode/", "rules/", ".md", NoHeader),
   PerHint("kiro", ".kiro/", "steering/", ".md", NoHeader),
   PerHint("open-hands", ".openhands/", "skills/", ".md", NoHeader),
   Shared("opencode", "AGENTS.md"),
   PerHint("roo-code", ".roo/", "rules/", ".md", NoHeader),
   Shared("replit", "replit.md"), Shared("warp", "WARP.md"),
   PerHint("windsurf", ".windsurf/", "rules/", ".md", NoHeader),
   Shared("zed", "AGENTS.md")}
agentNames == {r.key : r \in agentRows}
agents == [a \in agentNames |-> CHOOSE r \in agentRows : r.key = a]
\* the two agents the add and remove commands are run with: one that appends
\* to a shared file, one that writes a file per hint and has a header
Agents == {"droid", "cursor"}
AppendMode(agentName) == agents[agentName].appendMode

\* a path as a text, one token per piece
PathText(path) == [i \in 1..Len(path) |-> Plain(path[i])]
\* a hint name as a text: one token, but for the names made of the
\* characters String.prototype.replace reads
HintNameText(hintName) ==
  CASE hintName = "$&" -> <<Dollar, Ampersand>>
    [] hintName = "$$" -> <<Dollar, Dollar>>
    [] OTHER -> <<Plain(hintName)>>

\* resolveAgentPath: agent.path.replace("{hint}", hintName), the hint name
\* being the replacement string of the call
resolveAgentPath_NoSubstitution(agent, hintName) == agent.path
resolveAgentPath(agent, hintName) ==
  LET replaced == Replace(PathText(agent.path), <<Plain("{hint}")>>, HintNameText(hintName))
  IN [i \in 1..Len(replaced) |-> replaced[i][2]]

\* resolveAgentHeader: undefined when agent.header is falsy (absent or the
\* empty string), else the string, or what the function returns
resolveAgentHeader(agent, hintName) ==
  CASE agent.header.kind = "function" ->
         [defined |-> TRUE, text |-> <<HeaderOf(agent.key, hintName)>>]
    [] agent.header.kind = "static" /\ agent.header.text # EmptyText ->
         [defined |-> TRUE, text |-> agent.header.text]
    [] OTHER -> [defined |-> FALSE, text |-> EmptyText]

\* agent.transform(content, hintName): the one custom transform of the model
\* puts the content between brackets
ApplyTransform(transform, content, hintName) ==
  <<Plain("[")>> \o content \o <<Plain("]")>>

\* path.resolve(baseDir, relativePath): the directory the path leads to. A
\* piece of a path is a directory name, a hint path that climbs, or part of
\* the file name.
BaseDir == <<"home/", "user/", "project/">>
ClimbOf(piece) == IF piece = EscapingSlug THEN 3 ELSE 0
RECURSIVE resolve(_, _)
resolve(dir, pieces) ==
  IF pieces = <<>> THEN dir
  ELSE LET piece == Head(pieces)
       IN IF piece \in {".augment/", "rules/", ".clinerules/", ".cursor/", ".kilocode/",
                        ".kiro/", "steering/", ".openhands/", "skills/", ".roo/",
                        ".windsurf/", ".test/"}
          THEN resolve(Append(dir, piece), Tail(pieces))
          ELSE IF ClimbOf(piece) > 0
          THEN resolve(SubSeq(dir, 1, IF Len(dir) > ClimbOf(piece)
                                      THEN Len(dir) - ClimbOf(piece) ELSE 0),
                       Tail(pieces))
          ELSE resolve(dir, Tail(pieces))
\* resolved.startsWith(baseDir + sep), for a resolved path that names a file
StartsWith(dir, baseDir) ==
  Len(dir) >= Len(baseDir) /\ SubSeq(dir, 1, Len(baseDir)) = baseDir

\* resolvePath: the path under the working directory; throws when the
\* resolved path leaves it
resolvePath_NoCheck(relativePath) ==
  [threw |-> FALSE, path |-> <<"cwd/">> \o relativePath]
resolvePath(relativePath) ==
  [threw |-> ~StartsWith(resolve(BaseDir, relativePath), BaseDir),
   path |-> <<"cwd/">> \o relativePath]

transformForAgent_TransformFirst(content, hintName, agent, resolvedPath) ==
  LET header == resolveAgentHeader(agent, hintName)
      custom == IF agent.transform # "none"
                THEN ApplyTransform(agent.transform, content, hintName)
                ELSE content
      withHeader == IF header.defined /\ header.text # EmptyText
                    THEN header.text \o <<NL, NL>> \o custom
                    ELSE custom
  IN [content |-> IF agent.appendMode THEN wrapInSection(withHeader, hintName)
                  ELSE withHeader,
      path |-> resolvedPath,
      appendMode |-> agent.appendMode]
transformForAgent_AlwaysWraps(content, hintName, agent, resolvedPath) ==
  LET header == resolveAgentHeader(agent, hintName)
      withHeader == IF header.defined /\ header.text # EmptyText
                    THEN header.text \o <<NL, NL>> \o content
                    ELSE content
      custom == IF agent.transform # "none"
                THEN ApplyTransform(agent.transform, withHeader, hintName)
                ELSE withHeader
  IN [content |-> wrapInSection(custom, hintName),
      path |-> resolvedPath,
      appendMode |-> agent.appendMode]
transformForAgent(content, hintName, agent, resolvedPath) ==
  LET header == resolveAgentHeader(agent, hintName)
      withHeader == IF header.defined /\ header.text # EmptyText
                    THEN header.text \o <<NL, NL>> \o content
                    ELSE content
      custom == IF agent.transform # "none"
                THEN ApplyTransform(agent.transform, withHeader, hintName)
                ELSE withHeader
  IN [content |-> IF agent.appendMode THEN wrapInSection(custom, hintName)
                  ELSE custom,
      path |-> resolvedPath,
      appendMode |-> agent.appendMode]

\* The working directory: path -> file. A file that does not exist reads as
\* null (readFile) and is created by writeFile.
FileOf(exists, text) == [exists |-> exists, text |-> text]
NoFile == FileOf(FALSE, EmptyText)
TargetPaths ==
  {resolvePath(resolveAgentPath(agents[a], s)).path : a \in Agents, s \in CommandSlugs}
EmptyDir == [p \in TargetPaths |-> NoFile]

\* writeFile of utils/fs.ts: ensureDir, then fs.writeFile. The outcomes are
\* those of writeCache; a write that fails after the open leaves the file
\* truncated.
WriteFileTo(fs, filePath, content, disk) ==
  CASE disk = "ok" -> [threw |-> FALSE, fs |-> [fs EXCEPT ![filePath] = FileOf(TRUE, content)]]
    [] disk = "ENOSPC" -> [threw |-> TRUE, fs |-> [fs EXCEPT ![filePath] = FileOf(TRUE, EmptyText)]]
    [] OTHER -> [threw |-> TRUE, fs |-> fs]

\* deleteFile of utils/fs.ts: unlink; ENOENT is answered with false, any
\* other error is thrown again
DeleteFileAt(fs, filePath, disk) ==
  CASE ~fs[filePath].exists -> [threw |-> FALSE, deleted |-> FALSE, fs |-> fs]
    [] disk = "ok" -> [threw |-> FALSE, deleted |-> TRUE, fs |-> [fs EXCEPT ![filePath] = NoFile]]
    [] OTHER -> [threw |-> TRUE, deleted |-> FALSE, fs |-> fs]

\* writeHintToFile: [success, fs, wrote]. readOk is whether the read of an
\* existing target succeeds (append mode only); wrote is whether writeFile
\* was called.
writeHintToFile_IgnoresExisting(fs, absolutePath, hintPath, transformed, readOk, disk) ==
  IF transformed.appendMode
  THEN IF fs[absolutePath].exists /\ ~readOk
       THEN [success |-> FALSE, fs |-> fs, wrote |-> FALSE]
       ELSE LET updated == upsertSection(EmptyText, hintPath, transformed.content)
                w == WriteFileTo(fs, absolutePath, updated, disk)
            IN [success |-> ~w.threw, fs |-> w.fs, wrote |-> TRUE]
  ELSE LET w == WriteFileTo(fs, absolutePath, transformed.content, disk)
       IN [success |-> ~w.threw, fs |-> w.fs, wrote |-> TRUE]
writeHintToFile(fs, absolutePath, hintPath, transformed, readOk, disk) ==
  IF transformed.appendMode
  THEN IF fs[absolutePath].exists /\ ~readOk
       THEN [success |-> FALSE, fs |-> fs, wrote |-> FALSE]
       ELSE LET existing == fs[absolutePath].text
                updated == upsertSection(existing, hintPath, transformed.content)
                w == WriteFileTo(fs, absolutePath, updated, disk)
            IN [success |-> ~w.threw, fs |-> w.fs, wrote |-> TRUE]
  ELSE LET w == WriteFileTo(fs, absolutePath, transformed.content, disk)
       IN [success |-> ~w.threw, fs |-> w.fs, wrote |-> TRUE]

(***************************************************************************)
(* State.                                                                  *)
(***************************************************************************)
VARIABLES
  now,             \* Date.now()
  ticks,           \* how many times the clock has advanced
  LOCAL_REGISTRY,  \* whether process.env.AGENTHINTS_REGISTRY is set
  cache,           \* the cache directory: key -> file
  last,            \* the most recent call: what it was given and what it did
  search,          \* the searches made: each with its query, index and result
  \* one run of the add command
  addPc,           \* where add is: "idle", "index", "fetching", "writing", "exited"
  hintPaths,       \* the hints named on the command line, in order
  agent,           \* the agent selected
  registryHints,   \* the index document behind the path -> sha256 map
  tasks,           \* one fetch promise per hint, in argument order; then its result
  cursor,          \* the position of the write loop in results
  successCount,
  failureCount,
  files,           \* the working directory: path -> file
  exitCode,        \* "none" while running, then "0" or "1"
  writes,          \* every writeFile call of the write loop, in order
  \* the section transformer applied to one file text
  text,            \* the file text
  edit,            \* the most recent transformer call: its arguments and result
  edits            \* the transformer calls made on the text so far, in order

clientVars == <<now, ticks, LOCAL_REGISTRY, cache, last, search>>
addVars == <<addPc, hintPaths, agent, registryHints, tasks, cursor, successCount,
             failureCount, files, exitCode, writes>>
textVars == <<text, edit, edits>>
vars == <<clientVars, addVars, textVars>>

\* The record of a transformer call: the file text it was given (before),
\* the hint name, the new section (upsertSection only), and what it returned:
\* for extractSection whether a section was found and the section, for the
\* other two the new file text.
\* the agent field is the AgentConfig a call was given, if it takes one
Edit(op, before, hintName, newSection, found, result) ==
  [op |-> op, before |-> before, hintName |-> hintName, newSection |-> newSection,
   found |-> found, result |-> result, agent |-> AgentConfig("none", <<>>, NoHeader, FALSE, "none")]
NoEdit == Edit("none", EmptyText, Undefined, EmptyText, FALSE, EmptyText)

\* The record of a call. key is the cache key the call works on, ttl the TTL
\* it applies and pre the file of that key before the call; the clock does
\* not move during a call.
Call(op, hintPath, expected, key, ttl, pre, out) ==
  [op |-> op, hintPath |-> hintPath, hintFile |-> Undefined, expected |-> expected,
   key |-> key, ttl |-> ttl, pre |-> pre,
   threw |-> out.threw, error |-> out.error, message |-> out.message,
   value |-> out.value, net |-> out.net,
   resp |-> out.resp, disk |-> out.disk]
NoCall == [op |-> "none", hintPath |-> Undefined, hintFile |-> Undefined, expected |-> Undefined,
           key |-> IndexKey, ttl |-> 0, pre |-> MissingFile,
           threw |-> FALSE, error |-> "none", message |-> <<>>, value |-> Undefined,
           net |-> 0, resp |-> NoResponse, disk |-> NoDisk]

\* What the environment answers to one fetch call: in local mode the read of
\* the mirror file; in remote mode the HTTP response and, when the body
\* arrived, the outcome of the disk write. Each is consulted by the call only
\* if its code reaches the read, the GET or the write.
Answer(resp, disk, localRead) == [resp |-> resp, disk |-> disk, localRead |-> localRead]
AnswersOf(bodies) ==
  IF LOCAL_REGISTRY
  THEN {Answer(NoResponse, NoDisk, r) : r \in LocalReadsOf(bodies)}
  ELSE {Answer(Response("ok", b), d, NoResponse) : b \in bodies, d \in DiskOutcomes}
       \cup {Answer(r, NoDisk, NoResponse) : r \in FailedResponses}

Init ==
  /\ now = 0
  /\ ticks = 0
  /\ LOCAL_REGISTRY \in BOOLEAN
  /\ cache = EmptyCache
  /\ last = NoCall
  /\ search = <<>>
  /\ addPc = "idle"
  /\ hintPaths = <<>>
  /\ agent = "droid"
  /\ registryHints = Undefined
  /\ tasks = <<>>
  /\ cursor = 1
  /\ successCount = 0
  /\ failureCount = 0
  /\ files = EmptyDir
  /\ exitCode = "none"
  /\ writes = <<>>
  /\ text = EmptyText
  /\ edit = NoEdit
  /\ edits = <<>>

\* The program is between two calls: the previous call has returned (or
\* thrown) and its caller has taken the result.
Idle == last = NoCall

\* The caller takes the result of the call that just ended.
TakeResult ==
  /\ ~Idle
  /\ last' = NoCall
  /\ UNCHANGED <<search, now, ticks, LOCAL_REGISTRY, cache, addVars, textVars>>

\* Time passes between two calls.
Tick ==
  /\ Idle
  /\ ticks < MaxTicks
  /\ \E d \in {INDEX_TTL_MS - 1, INDEX_TTL_MS, HINT_TTL_MS - 1, HINT_TTL_MS} :
       now' = now + d
  /\ ticks' = ticks + 1
  /\ UNCHANGED <<search, LOCAL_REGISTRY, cache, last, addVars, textVars>>

\* Something other than this program damages a cache file (the cache lives
\* in the shared OS temp directory).
Damage ==
  /\ Idle
  /\ \E k \in CacheKeys, kind \in {"ioerror", "badjson", "noshape"} :
       /\ cache[k] # DamagedFile(kind)
       /\ cache' = [cache EXCEPT ![k] = DamagedFile(kind)]
  /\ UNCHANGED <<search, now, ticks, LOCAL_REGISTRY, last, addVars, textVars>>

FetchRegistryIndex ==
  /\ Idle
  /\ \E a \in AnswersOf(Indexes) :
    LET out == fetchRegistryIndex(LOCAL_REGISTRY, cache, now, a.resp, a.disk, a.localRead)
    IN /\ cache' = out.dir
       /\ last' = Call("fetchRegistryIndex", Undefined, Undefined, IndexKey, INDEX_TTL_MS,
                       cache[IndexKey], out)
       /\ UNCHANGED <<search, now, ticks, LOCAL_REGISTRY, addVars, textVars>>

FetchHintMetadata ==
  /\ Idle
  /\ \E hintPath \in Slugs, a \in AnswersOf(Metadatas) :
    LET out == fetchHintMetadata(LOCAL_REGISTRY, cache, now, hintPath, a.resp, a.disk, a.localRead)
    IN /\ cache' = out.dir
       /\ last' = Call("fetchHintMetadata", hintPath, Undefined, MetaKey(hintPath), HINT_TTL_MS,
                       cache[MetaKey(hintPath)], out)
       /\ UNCHANGED <<search, now, ticks, LOCAL_REGISTRY, addVars, textVars>>

FetchHintContent ==
  /\ Idle
  /\ \E hintPath \in Slugs, hintFile \in HintFiles, expectedSha256 \in Hashes \cup {Undefined} :
     \E a \in AnswersOf(IF hintFile = "./hint.md" THEN Contents ELSE {"c3"}) :
    LET out == fetchHintContent(LOCAL_REGISTRY, cache, now, hintPath, hintFile, expectedSha256,
                                a.resp, a.disk, a.localRead)
    IN /\ cache' = out.dir
       /\ last' = [Call("fetchHintContent", hintPath, expectedSha256, ContentKey(hintPath),
                        HINT_TTL_MS, cache[ContentKey(hintPath)], out)
                     EXCEPT !.hintFile = hintFile]
       /\ UNCHANGED <<search, now, ticks, LOCAL_REGISTRY, addVars, textVars>>

ReadCache ==
  /\ Idle
  /\ \E k \in CacheKeys :
    /\ last' = Call("readCache", Undefined, Undefined, k, 0, cache[k],
                    Return(readCache(cache, k).kind, 0, cache, NoResponse, NoDisk))
    /\ UNCHANGED <<search, now, ticks, LOCAL_REGISTRY, cache, addVars, textVars>>

InvalidateCache ==
  /\ Idle
  /\ \E k \in CacheKeys, unlinkOk \in BOOLEAN :
    LET out == invalidateCache(cache, k, unlinkOk)
    IN /\ cache' = out.dir
       /\ last' = Call("invalidateCache", Undefined, Undefined, k, 0, cache[k],
                       Outcome(out.threw, "none", Undefined, 0, out.dir, NoResponse, NoDisk))
       /\ UNCHANGED <<search, now, ticks, LOCAL_REGISTRY, addVars, textVars>>

ClearCache ==
  /\ Idle
  /\ \E rmOk \in BOOLEAN :
    LET out == clearCache(cache, rmOk)
    IN /\ cache' = out.dir
       /\ last' = Call("clearCache", Undefined, Undefined, IndexKey, 0, cache[IndexKey],
                       Outcome(out.threw, "none", Undefined, 0, out.dir, NoResponse, NoDisk))
       /\ UNCHANGED <<search, now, ticks, LOCAL_REGISTRY, addVars, textVars>>

\* isExpired applied to a timestamp and a TTL: the timestamps around the
\* boundary now - ttl, the present and the start of time.
IsExpired ==
  /\ Idle
  /\ \E ttlMs \in {0, 1, INDEX_TTL_MS, HINT_TTL_MS} :
       \E timestamp \in {t \in {0, now, now - ttlMs - 1, now - ttlMs, now - ttlMs + 1} : t >= 0} :
         last' = Call("isExpired", Undefined, Undefined, IndexKey, ttlMs,
                      File("timestamp", Undefined, timestamp, Undefined),
                      Return(IF isExpired(timestamp, ttlMs, now) THEN "true" ELSE "false", 0, cache,
                             NoResponse, NoDisk))
  /\ UNCHANGED <<search, now, ticks, LOCAL_REGISTRY, cache, addVars, textVars>>

Next ==
  \/ TakeResult
  \/ Tick
  \/ Damage
  \/ FetchRegistryIndex
  \/ FetchHintMetadata
  \/ FetchHintContent
  \/ ReadCache
  \/ InvalidateCache
  \/ ClearCache
  \/ IsExpired

Spec == Init /\ [][Next]_vars

(***************************************************************************)
(* searchHints (registry.ts). A string is the sequence of its characters.  *)
(***************************************************************************)
\* an entry of index.hints; the sha256 plays no part in a search
IndexEntry(path, name, description, category, tags) ==
  [path |-> path, name |-> name, description |-> description, category |-> category,
   tags |-> tags]
\* index.hints of the index documents a search is served: up to two entries,
\* the same entry twice included
SearchIndexes ==
  LET orm == IndexEntry(<<"o", "r", "m">>, <<"O", "r", "m">>, <<"d", "b">>, <<"D", "B">>,
                        <<<<"S", "Q", "L">>, <<"t", "s">>>>)
      zod == IndexEntry(<<"z", "o", "d">>, <<"Z", "o", "d">>, <<"t", "s">>, <<"l", "i", "b">>,
                        <<>>)
      css == IndexEntry(<<"c", "s", "s">>, <<"C", "S", "S">>, <<>>, <<"u", "i">>,
                        <<<<"d", "o", "m">>>>)
  IN {<<>>} \cup {<<a>> : a \in {orm, zod, css}}
            \cup {<<a, b>> : a \in {orm, zod, css}, b \in {orm, zod, css}}

\* String.prototype.toLowerCase
toLowerCase(s) ==
  [i \in 1..Len(s) |->
     CASE s[i] = "B" -> "b" [] s[i] = "C" -> "c" [] s[i] = "D" -> "d" [] s[i] = "L" -> "l"
       [] s[i] = "O" -> "o" [] s[i] = "Q" -> "q" [] s[i] = "S" -> "s" [] s[i] = "Z" -> "z"
       [] OTHER -> s[i]]

\* String.prototype.includes: the empty string is a substring of every string
includes(s, searchString) ==
  \E i \in 1..(Len(s) + 1) : Occurs(s, searchString, i)

\* searchHints: the index is fetched (a failure of the fetch is the failure
\* of the search), then index.hints is filtered.
searchHints_CaseSensitiveQuery(local, dir, clock, query, resp, disk, localRead) ==
  LET index == fetchRegistryIndex(local, dir, clock, resp, disk, localRead)
      matches(hint) ==
        \/ includes(toLowerCase(hint.path), query)
        \/ includes(toLowerCase(hint.name), query)
        \/ includes(toLowerCase(hint.description), query)
        \/ \E t \in 1..Len(hint.tags) : includes(toLowerCase(hint.tags[t]), query)
        \/ includes(toLowerCase(hint.category), query)
  IN IF index.threw THEN index
     ELSE [index EXCEPT !.value = SelectSeq(index.value, matches)]
searchHints(local, dir, clock, query, resp, disk, localRead) ==
  LET index == fetchRegistryIndex(local, dir, clock, resp, disk, localRead)
      lowerQuery == toLowerCase(query)
      matches(hint) ==
        \/ includes(toLowerCase(hint.path), lowerQuery)
        \/ includes(toLowerCase(hint.name), lowerQuery)
        \/ includes(toLowerCase(hint.description), lowerQuery)
        \/ \E t \in 1..Len(hint.tags) : includes(toLowerCase(hint.tags[t]), lowerQuery)
        \/ includes(toLowerCase(hint.category), lowerQuery)
  IN IF index.threw THEN index
     ELSE [index EXCEPT !.value = SelectSeq(index.value, matches)]

\* One search. The record keeps the query, the index the fetch gave (from
\* the cache, the mirror or the network) and what the search returned.
SearchHints ==
  /\ \E query \in {<<>>, <<"o">>, <<"O", "R">>, <<"s", "q", "l">>, <<"D", "b">>, <<"t", "s">>,
                   <<"m", "o">>, <<"x">>},
        a \in AnswersOf(SearchIndexes) :
       LET index == fetchRegistryIndex(LOCAL_REGISTRY, cache, now, a.resp, a.disk, a.localRead)
           out == searchHints(LOCAL_REGISTRY, cache, now, query, a.resp, a.disk, a.localRead)
       IN /\ cache' = out.dir
          /\ search' = <<[query |-> query, threw |-> out.threw,
                          hints |-> IF index.threw THEN <<>> ELSE index.value,
                          net |-> out.net,
                          result |-> IF out.threw THEN <<>> ELSE out.value]>>
  /\ UNCHANGED <<now, ticks, LOCAL_REGISTRY, last, addVars, textVars>>

SpecSearch == Init /\ [][SearchHints]_vars

(***************************************************************************)
(* The add command (commands/add.ts).                                      *)
(***************************************************************************)
\* how many hints one run of add is given
MaxHints == 2

RECURSIVE SeqsUpTo(_, _)
SeqsUpTo(S, n) ==
  IF n = 0 THEN {<<>>}
  ELSE SeqsUpTo(S, n - 1) \cup {Append(q, x) : q \in {r \in SeqsUpTo(S, n - 1) : Len(r) = n - 1}, x \in S}
HintPathLists == {q \in SeqsUpTo(CommandSlugs, MaxHints) : Len(q) >= 1}

\* One fetch promise and, once pc = "done", the result it resolved to.
\* fetched is the hint text fetchHintContent returned, if it returned.
Task(pc, hintPath, expectedHash, metadata, fetched, status, message, hintContent) ==
  [pc |-> pc, hintPath |-> hintPath, expectedHash |-> expectedHash, metadata |-> metadata,
   fetched |-> fetched, status |-> status, message |-> message, hintContent |-> hintContent,
   order |-> 0]
Failed(t, message) ==
  [t EXCEPT !.pc = "done", !.status = "error", !.message = message]

\* actualHash !== expectedHash, negated
IntegrityOk_Unchecked(actualHash, expectedHash) == TRUE
IntegrityOk(actualHash, expectedHash) == actualHash = expectedHash

\* A promise up to its first await: the lookup in registryHints
StartTask(index, hintPath) ==
  LET expectedHash == IndexSha(index, hintPath)
      t == Task("meta", hintPath, expectedHash, Undefined, Undefined, "pending", "none", Undefined)
  IN IF ~TruthyString(expectedHash) THEN Failed(t, "NotInRegistry") ELSE t

\* fetchHintMetadata has settled; metadata.hint is read next
MetadataSettled(t, out) ==
  CASE out.threw -> Failed(t, out.error)
    [] out.value = Undefined -> Failed(t, "TypeError")
    [] OTHER -> [t EXCEPT !.pc = "content", !.metadata = out.value]

\* fetchHintContent has settled; the integrity check follows
ContentSettled(t, out) ==
  IF out.threw THEN Failed(t, out.error)
  ELSE LET hintContent == out.value
           actualHash == Sha256Of(hintContent)
       IN IF ~IntegrityOk(actualHash, t.expectedHash)
          THEN [Failed(t, "IntegrityError") EXCEPT !.fetched = hintContent]
          ELSE [t EXCEPT !.pc = "done", !.status = "success", !.fetched = hintContent,
                         !.hintContent = hintContent]

\* A content entry of an earlier run, stored under either digest
AddCaches ==
  {[EmptyCache EXCEPT ![ContentKey("prisma")] = f, ![MetaKey("prisma")] = m] :
     f \in {MissingFile} \cup {File("entry", c, 0, h) : c \in Contents, h \in Hashes},
     m \in {MissingFile, DamagedFile("noshape")}}
\* the shared file of an append-mode agent may exist already
EarlierDirs ==
  {EmptyDir,
   [EmptyDir EXCEPT ![resolvePath(resolveAgentPath(agents["droid"], "prisma")).path] =
                       FileOf(TRUE, <<Plain("notes"), NL>>)]}

InitAdd ==
  /\ now = 0
  /\ ticks = 0
  /\ LOCAL_REGISTRY \in BOOLEAN
  /\ cache \in IF LOCAL_REGISTRY THEN {EmptyCache} ELSE AddCaches
  /\ last = NoCall
  /\ search = <<>>
  /\ addPc = "index"
  /\ hintPaths \in HintPathLists
  /\ agent \in Agents
  /\ registryHints = Undefined
  /\ tasks = <<>>
  /\ cursor = 1
  /\ successCount = 0
  /\ failureCount = 0
  /\ files \in EarlierDirs
  /\ exitCode = "none"
  /\ writes = <<>>
  /\ text = EmptyText
  /\ edit = NoEdit
  /\ edits = <<>>

\* add, lines 110-131: the index is fetched; on failure exit(1); otherwise
\* every promise is created and runs to its first await.
AddFetchIndex ==
  /\ addPc = "index"
  /\ \E a \in AnswersOf(Indexes) :
    LET out == fetchRegistryIndex(LOCAL_REGISTRY, cache, now, a.resp, a.disk, a.localRead)
    IN /\ cache' = out.dir
       /\ IF out.threw \/ out.value = Undefined
          THEN /\ addPc' = "exited"
               /\ exitCode' = "1"
               /\ UNCHANGED <<registryHints, tasks>>
          ELSE /\ addPc' = "fetching"
               /\ registryHints' = out.value
               /\ tasks' = [i \in 1..Len(hintPaths) |-> StartTask(out.value, hintPaths[i])]
               /\ UNCHANGED exitCode
  /\ UNCHANGED <<search, now, ticks, LOCAL_REGISTRY, last, hintPaths, agent, cursor, successCount,
                 failureCount, files, writes, textVars>>

\* The promise at position i takes a step and becomes t. order keeps, for a
\* promise that settles, how many promises had settled before it.
Settle(promises, i, t) ==
  [promises EXCEPT ![i] =
     IF t.pc = "done"
     THEN [t EXCEPT !.order = Cardinality({j \in 1..Len(promises) : promises[j].pc = "done"})]
     ELSE t]

TaskUnchanged ==
  UNCHANGED <<search, now, ticks, LOCAL_REGISTRY, last, addPc, hintPaths, agent, registryHints,
              cursor, successCount, failureCount, files, exitCode, writes, textVars>>

\* fetchHintMetadata up to the GET: the mirror read in local mode, else the
\* cache test
TaskMetadataLookup(i) ==
  /\ addPc = "fetching"
  /\ tasks[i].pc = "meta"
  /\ LET t == tasks[i]
         cached == readCache(cache, MetaKey(t.hintPath))
     IN IF LOCAL_REGISTRY \/ CacheUsable(cached, HINT_TTL_MS, now)
        THEN \E a \in AnswersOf(Metadatas) :
               LET out == fetchHintMetadata(LOCAL_REGISTRY, cache, now, t.hintPath,
                                            a.resp, a.disk, a.localRead)
               IN tasks' = Settle(tasks, i, MetadataSettled(t, out))
        ELSE tasks' = [tasks EXCEPT ![i].pc = "metaGet"]
  /\ UNCHANGED cache
  /\ TaskUnchanged

\* fetchHintMetadata from the response on
TaskMetadataResponse(i) ==
  /\ addPc = "fetching"
  /\ tasks[i].pc = "metaGet"
  /\ \E a \in AnswersOf(Metadatas) :
    LET t == tasks[i]
        out == FetchAndCache(cache, now, MetaKey(t.hintPath), Undefined, a.resp, a.disk, TRUE)
    IN /\ cache' = out.dir
       /\ tasks' = Settle(tasks, i, MetadataSettled(t, out))
  /\ TaskUnchanged

\* fetchHintContent up to the GET
TaskContentLookup(i) ==
  /\ addPc = "fetching"
  /\ tasks[i].pc = "content"
  /\ LET t == tasks[i]
         cached == readCache(cache, ContentKey(t.hintPath))
     IN IF LOCAL_REGISTRY \/ ContentCacheUsable(cached, t.expectedHash, now)
        THEN \E hintFile \in HintFiles, a \in AnswersOf(Contents) :
               LET out == fetchHintContent(LOCAL_REGISTRY, cache, now, t.hintPath, hintFile,
                                           t.expectedHash, a.resp, a.disk, a.localRead)
               IN tasks' = Settle(tasks, i, ContentSettled(t, out))
        ELSE tasks' = [tasks EXCEPT ![i].pc = "contentGet"]
  /\ UNCHANGED cache
  /\ TaskUnchanged

\* fetchHintContent from the response on, then the integrity check
TaskContentResponse(i) ==
  /\ addPc = "fetching"
  /\ tasks[i].pc = "contentGet"
  /\ \E a \in AnswersOf(Contents) :
    LET t == tasks[i]
        out == FetchAndCache(cache, now, ContentKey(t.hintPath), t.expectedHash,
                             a.resp, a.disk, FALSE)
    IN /\ cache' = out.dir
       /\ tasks' = Settle(tasks, i, ContentSettled(t, out))
  /\ TaskUnchanged

\* Promise.all resolves once every promise has
AllSettled_FirstOnly(promises) == promises[1].pc = "done"
AllSettled(promises) == \A i \in 1..Len(promises) : promises[i].pc = "done"
Join ==
  /\ addPc = "fetching"
  /\ AllSettled(tasks)
  /\ addPc' = "writing"
  /\ UNCHANGED <<clientVars, hintPaths, agent, registryHints, tasks, cursor, successCount,
                 failureCount, files, exitCode, writes, textVars>>

\* results[position] of the array Promise.all resolves to: the results in
\* the order of the promises, whatever the order they settled in
ResultAt_CompletionOrder(results, position) ==
  LET Before(a, b) ==
        results[a].order < results[b].order \/ (results[a].order = results[b].order /\ a < b)
  IN results[CHOOSE a \in 1..Len(results) :
               Cardinality({b \in 1..Len(results) : Before(b, a)}) = position - 1]
ResultAt(results, position) == results[position]

\* One round of the write loop (lines 174-207)
WriteRecord(index, result, absolutePath, ok) ==
  [index |-> index, hintPath |-> result.hintPath, hintContent |-> result.hintContent,
   path |-> absolutePath, ok |-> ok]

WriteResult ==
  /\ addPc = "writing"
  /\ cursor <= Len(tasks)
  /\ LET result == ResultAt(tasks, cursor)
         resolvedPath == resolveAgentPath(agents[agent], result.hintPath)
         absolutePath == resolvePath(resolvedPath)
         transformed == transformForAgent(TextOf(result.hintContent), result.hintPath,
                                          agents[agent], resolvedPath)
     IN CASE result.status = "error" ->
               /\ failureCount' = failureCount + 1
               /\ cursor' = cursor + 1
               /\ UNCHANGED <<addPc, successCount, files, exitCode, writes>>
          [] result.status # "error" /\ absolutePath.threw ->
               /\ addPc' = "exited"
               /\ exitCode' = "1"
               /\ UNCHANGED <<cursor, successCount, failureCount, files, writes>>
          [] OTHER ->
               \E readOk \in BOOLEAN, disk \in DiskOutcomes :
                 LET w == writeHintToFile(files, absolutePath.path, result.hintPath,
                                          transformed, readOk, disk)
                 IN /\ files' = w.fs
                    /\ writes' = IF w.wrote
                                 THEN Append(writes, WriteRecord(cursor, result,
                                                                 absolutePath.path, w.success))
                                 ELSE writes
                    /\ successCount' = successCount + (IF w.success THEN 1 ELSE 0)
                    /\ failureCount' = failureCount + (IF w.success THEN 0 ELSE 1)
                    /\ cursor' = cursor + 1
                    /\ UNCHANGED <<addPc, exitCode>>
  /\ UNCHANGED <<clientVars, hintPaths, agent, registryHints, tasks, textVars>>

\* After the loop (lines 209-216): exit(1) when nothing was added, else the
\* command returns
ExitCodeOf(succeeded, failed) == IF succeeded = 0 THEN "1" ELSE "0"
Finish ==
  /\ addPc = "writing"
  /\ cursor > Len(tasks)
  /\ addPc' = "exited"
  /\ exitCode' = ExitCodeOf(successCount, failureCount)
  /\ UNCHANGED <<clientVars, hintPaths, agent, registryHints, tasks, cursor, successCount,
                 failureCount, files, writes, textVars>>

NextAdd ==
  \/ AddFetchIndex
  \/ \E i \in 1..Len(tasks) : TaskMetadataLookup(i)
  \/ \E i \in 1..Len(tasks) : TaskMetadataResponse(i)
  \/ \E i \in 1..Len(tasks) : TaskContentLookup(i)
  \/ \E i \in 1..Len(tasks) : TaskContentResponse(i)
  \/ Join
  \/ WriteResult
  \/ Finish

SpecAdd == InitAdd /\ [][NextAdd]_vars

(***************************************************************************)
(* A fetch of a hint content whose writeCache runs while another           *)
(* invocation of the program clears the cache. The promise is at           *)
(*   contentGet  the GET is under way                                      *)
(*   mkdir       the body has arrived, writeCache is at its mkdir          *)
(*   writeFile   mkdir has created the directory of the cache file         *)
(*   noDir       as writeFile, and the directory has been removed since    *)
(*   done        the fetch has returned or thrown                          *)
(***************************************************************************)
InitRace ==
  /\ now = 0
  /\ ticks = 0
  /\ LOCAL_REGISTRY = FALSE
  /\ cache \in AddCaches
  /\ last = NoCall
  /\ search = <<>>
  /\ addPc = "fetching"
  /\ hintPaths = <<>>
  /\ agent = "droid"
  /\ registryHints = Undefined
  /\ tasks \in {<<Task("contentGet", hintPath, expectedHash, Undefined, Undefined,
                       "pending", "none", Undefined)>> :
                  hintPath \in RegistrySlugs, expectedHash \in Hashes \cup {Undefined}}
  /\ cursor = 1
  /\ successCount = 0
  /\ failureCount = 0
  /\ files = EmptyDir
  /\ exitCode = "none"
  /\ writes = <<>>
  /\ text = EmptyText
  /\ edit = NoEdit
  /\ edits = <<>>

\* fetchHintContent from the response to the call of writeCache (lines
\* 139-148): a response that is not ok, or whose body cannot be read, throws
RaceResponse ==
  /\ tasks[1].pc = "contentGet"
  /\ \E resp \in {Response("ok", b) : b \in Contents} \cup FailedResponses :
       tasks' = IF resp.kind = "ok"
                THEN [tasks EXCEPT ![1].pc = "mkdir", ![1].fetched = resp.body]
                ELSE [tasks EXCEPT ![1] = Failed(@, "FetchError")]
  /\ UNCHANGED cache
  /\ TaskUnchanged

\* writeCache, one disk call at a time: mkdir with recursive: true creates
\* the directory; writeFile writes the entry, or rejects with ENOENT when
\* the directory is not there any more, and the rejection is the rejection
\* of the fetch; after writeFile the fetch returns the body.
WriteCacheStep ==
  /\ tasks[1].pc \in {"mkdir", "writeFile", "noDir"}
  /\ LET t == tasks[1]
     IN CASE t.pc = "mkdir" ->
               /\ tasks' = [tasks EXCEPT ![1].pc = "writeFile"]
               /\ UNCHANGED cache
          [] t.pc = "writeFile" ->
               /\ cache' = writeCache(cache, now, ContentKey(t.hintPath), t.fetched,
                                      t.expectedHash, "ok").dir
               /\ tasks' = [tasks EXCEPT ![1].pc = "done", ![1].status = "success",
                                         ![1].hintContent = t.fetched]
          [] OTHER ->
               /\ tasks' = [tasks EXCEPT ![1] = Failed(@, "IOError")]
               /\ UNCHANGED cache
  /\ TaskUnchanged

\* clearCache of another invocation: rm -rf of the cache directory, at any
\* point of the fetch
RaceClearCache ==
  /\ cache' = clearCache(cache, TRUE).dir
  /\ tasks' = IF tasks[1].pc = "writeFile" THEN [tasks EXCEPT ![1].pc = "noDir"] ELSE tasks
  /\ cache' # cache \/ tasks' # tasks
  /\ TaskUnchanged

SpecRace == InitRace /\ [][RaceResponse \/ WriteCacheStep \/ RaceClearCache]_vars

(***************************************************************************)
(* The section transformer applied to a file text (transformer.ts).        *)
(***************************************************************************)
\* how many pieces the initial file text is put together from
MaxPieces == 2
\* how many transformer calls one behaviour makes
MaxEdits == 3

\* Well-formed sections of a hint: start marker first, end marker last, and
\* neither marker anywhere between. The bodies the calls are given: plain
\* text, the two characters $&, and three newlines
SectionsOf(hintName) ==
  {wrapInSection(b, hintName) : b \in {<<Plain("a")>>, <<Dollar, Ampersand>>, <<NL, NL, NL>>}}
\* The file texts of up to n pieces. What a file text is put together from:
\* single characters, single markers and whole sections
RECURSIVE TextsOf(_)
TextsOf(n) ==
  IF n = 0 THEN {EmptyText}
  ELSE LET Pieces ==
             {<<NL>>, <<SP>>, <<Plain("a")>>}
             \cup {<<SectionStart(h)>> : h \in RegistrySlugs}
             \cup {<<SectionEnd(h)>> : h \in RegistrySlugs}
             \cup UNION {SectionsOf(h) : h \in RegistrySlugs}
       IN TextsOf(n - 1) \cup {t \o p : t \in TextsOf(n - 1), p \in Pieces}

NoClient ==
  /\ now = 0
  /\ ticks = 0
  /\ LOCAL_REGISTRY = FALSE
  /\ cache = EmptyCache
  /\ last = NoCall
  /\ search = <<>>
NoAdd ==
  /\ addPc = "idle"
  /\ hintPaths = <<>>
  /\ agent = "droid"
  /\ registryHints = Undefined
  /\ tasks = <<>>
  /\ cursor = 1
  /\ successCount = 0
  /\ failureCount = 0
  /\ files = EmptyDir
  /\ exitCode = "none"
  /\ writes = <<>>

InitText ==
  /\ NoClient
  /\ NoAdd
  /\ text \in TextsOf(MaxPieces)
  /\ edit = NoEdit
  /\ edits = <<>>

ExtractSection ==
  /\ Len(edits) < MaxEdits
  /\ \E hintName \in RegistrySlugs :
       LET r == extractSection(text, hintName)
       IN edit' = Edit("extractSection", text, hintName, EmptyText, r.found, r.section)
  /\ edits' = Append(edits, edit')
  /\ UNCHANGED <<text, clientVars, addVars>>

RemoveSection ==
  /\ Len(edits) < MaxEdits
  /\ \E hintName \in RegistrySlugs :
       LET r == removeSection(text, hintName)
       IN /\ text' = r
          /\ edit' = Edit("removeSection", text, hintName, EmptyText, FALSE, r)
  /\ edits' = Append(edits, edit')
  /\ UNCHANGED <<clientVars, addVars>>

UpsertSection ==
  /\ Len(edits) < MaxEdits
  /\ \E hintName \in RegistrySlugs :
       \E newSection \in SectionsOf(hintName) :
         LET r == upsertSection(text, hintName, newSection)
         IN /\ text' = r
            /\ edit' = Edit("upsertSection", text, hintName, newSection, FALSE, r)
  /\ edits' = Append(edits, edit')
  /\ UNCHANGED <<clientVars, addVars>>

NextText ==
  \/ ExtractSection
  \/ RemoveSection
  \/ UpsertSection

SpecText == InitText /\ [][NextText]_vars

(***************************************************************************)
(* Rendering for an agent (transformer.ts transformForAgent, agents.ts).   *)
(***************************************************************************)
\* The AgentConfigs transformForAgent is called with: the rows of the table
\* and configurations as the tests build them, with every combination of
\* header, appendMode and transform
TestAgents ==
  {AgentConfig("test", <<".test/", "RULES.md">>, header, appendMode, transform) :
     header \in {NoHeader, StaticHeader(<<Plain("---")>>), StaticHeader(EmptyText),
                 FunctionHeader},
     appendMode \in BOOLEAN, transform \in {"none", "bracket"}}
AgentConfigs == agentRows \cup TestAgents
\* hint contents: plain text, nothing, text that holds a section marker
RenderContents ==
  {<<Plain("a")>>, EmptyText, <<Dollar, Ampersand>>,
   <<Plain("a"), NL, SectionEnd("prisma")>>}

InitRender ==
  /\ NoClient
  /\ NoAdd
  /\ text = EmptyText
  /\ edit = NoEdit
  /\ edits = <<>>

TransformForAgent ==
  /\ \E content \in RenderContents, hintName \in RegistrySlugs, config \in AgentConfigs :
       LET r == transformForAgent(content, hintName, config, resolveAgentPath(config, hintName))
       IN edit' = [Edit("transformForAgent", content, hintName, EmptyText, FALSE, r.content)
                     EXCEPT !.agent = config, !.found = r.appendMode]
  /\ UNCHANGED <<text, edits, clientVars, addVars>>

\* resolveAgentPath on a row of the table, or on a path that holds the
\* placeholder twice; the hint name may hold dollar signs
ResolveAgentPath ==
  /\ \E config \in agentRows
                      \cup {AgentConfig("twice", <<"{hint}", "/", "{hint}", ".md">>,
                                         NoHeader, FALSE, "none")},
        hintName \in RegistrySlugs \cup {"$&", "$$"} :
       LET r == resolveAgentPath(config, hintName)
       IN edit' = [Edit("resolveAgentPath", EmptyText, hintName, EmptyText, FALSE, PathText(r))
                     EXCEPT !.agent = config]
  /\ UNCHANGED <<text, edits, clientVars, addVars>>

NextRender ==
  \/ TransformForAgent
  \/ ResolveAgentPath

SpecRender == InitRender /\ [][NextRender]_vars

(***************************************************************************)
(* The remove command (commands/remove.ts).                                *)
(***************************************************************************)
\* What the working directory holds when remove starts. For an agent that
\* appends: the shared file is missing or holds any text; for an agent that
\* writes a file per hint: any of the files the hint paths lead to exist.
RECURSIVE DirWith(_, _)
DirWith(paths, content) ==
  IF paths = {} THEN EmptyDir
  ELSE LET q == CHOOSE x \in paths : TRUE
       IN [DirWith(paths \ {q}, content) EXCEPT ![q] = FileOf(TRUE, content)]
RemoveDirs(agentName) ==
  IF AppendMode(agentName)
  THEN {EmptyDir} \cup
       {[EmptyDir EXCEPT ![resolvePath(resolveAgentPath(agents[agentName], "prisma")).path] =
                           FileOf(TRUE, t)] : t \in TextsOf(MaxPieces)}
  ELSE {DirWith({resolvePath(resolveAgentPath(agents[agentName], h)).path : h \in hs},
                <<Plain("a")>>) : hs \in SUBSET CommandSlugs}

\* one file operation of remove: op is "write" or "delete"
RemoveRecord(index, hintPath, op, absolutePath, content, ok) ==
  [index |-> index, hintPath |-> hintPath, op |-> op, path |-> absolutePath,
   content |-> content, ok |-> ok]

InitRemove ==
  /\ NoClient
  /\ addPc = "removing"
  /\ hintPaths \in HintPathLists
  /\ agent \in Agents
  /\ registryHints = Undefined
  /\ tasks = <<>>
  /\ cursor = 1
  /\ successCount = 0
  /\ failureCount = 0
  /\ files \in RemoveDirs(agent)
  /\ exitCode = "none"
  /\ writes = <<>>
  /\ text = EmptyText
  /\ edit = NoEdit
  /\ edits = <<>>

\* an error thrown inside remove rejects the command: cli.ts exits with 1
RemoveThrows(fs, log) ==
  /\ addPc' = "exited"
  /\ exitCode' = "1"
  /\ files' = fs
  /\ writes' = log
  /\ UNCHANGED cursor
RemoveContinues(fs, log) ==
  /\ cursor' = cursor + 1
  /\ files' = fs
  /\ writes' = log
  /\ UNCHANGED <<addPc, exitCode>>
\* the operation a round ends with: its record is logged, a throw rejects
RemoveOperation(hintPath, op, absolutePath, content, outcome) ==
  LET log == Append(writes, RemoveRecord(cursor, hintPath, op, absolutePath, content,
                                         ~outcome.threw))
  IN IF outcome.threw THEN RemoveThrows(outcome.fs, log)
     ELSE RemoveContinues(outcome.fs, log)

\* updated.trim().length === 0 (line 99)
EmptyAfterRemoval_Never(updated) == FALSE
EmptyAfterRemoval(updated) == Len(Trim(updated)) = 0

\* One round of the loop (lines 77-125). readOk is whether reading (append
\* mode) or probing (file per hint) an existing target succeeds.
RemoveHint ==
  /\ addPc = "removing"
  /\ cursor <= Len(hintPaths)
  /\ LET hintPath == hintPaths[cursor]
         resolvedPath == resolveAgentPath(agents[agent], hintPath)
         absolutePath == resolvePath(resolvedPath)
     IN IF absolutePath.threw THEN RemoveThrows(files, writes)
        ELSE \E readOk \in BOOLEAN, disk \in DiskOutcomes :
          LET existing == files[absolutePath.path]
          IN IF existing.exists /\ ~readOk THEN RemoveThrows(files, writes)
             ELSE IF agents[agent].appendMode
             THEN IF ~existing.exists \/ existing.text = EmptyText
                  THEN RemoveContinues(files, writes)
                  ELSE IF ~extractSection(existing.text, hintPath).found
                  THEN RemoveContinues(files, writes)
                  ELSE LET updated == removeSection(existing.text, hintPath)
                       IN IF EmptyAfterRemoval(updated)
                          THEN RemoveOperation(hintPath, "delete", absolutePath.path, EmptyText,
                                               DeleteFileAt(files, absolutePath.path, disk))
                          ELSE RemoveOperation(hintPath, "write", absolutePath.path, updated,
                                               WriteFileTo(files, absolutePath.path, updated, disk))
             ELSE IF ~existing.exists THEN RemoveContinues(files, writes)
                  ELSE RemoveOperation(hintPath, "delete", absolutePath.path, EmptyText,
                                       DeleteFileAt(files, absolutePath.path, disk))
  /\ UNCHANGED <<clientVars, hintPaths, agent, registryHints, tasks, successCount,
                 failureCount, textVars>>

\* After the loop (line 127)
RemoveDone ==
  /\ addPc = "removing"
  /\ cursor > Len(hintPaths)
  /\ addPc' = "exited"
  /\ exitCode' = "0"
  /\ UNCHANGED <<clientVars, hintPaths, agent, registryHints, tasks, cursor, successCount,
                 failureCount, files, writes, textVars>>

NextRemove ==
  \/ RemoveHint
  \/ RemoveDone

SpecRemove == InitRemove /\ [][NextRemove]_vars

\* Either command, run once in a working directory
SpecCommands == (InitAdd \/ InitRemove) /\ [][NextAdd \/ NextRemove]_vars


(***************************************************************************)
(* Properties of the registry client and the cache store.                  *)
(***************************************************************************)
Remote == ~LOCAL_REGISTRY
\* the age of the file the last call found under its key
PreAge == now - last.pre.timestamp
ContentCall == last.op = "fetchHintContent" /\ Remote

\* C1. Cache integrity gate: when the content entry carries sha256 = A and
\* fetchHintContent is called with an expected hash B # A, a network request
\* is issued whatever the age of the entry, and what is returned is the body
\* of the response, not the cached data.
C1_IntegrityGate ==
  (/\ ContentCall
   /\ last.pre.kind = "entry"
   /\ TruthyString(last.pre.sha256)
   /\ TruthyString(last.expected)
   /\ last.expected # last.pre.sha256)
  => /\ last.net = 1
     /\ last.resp.kind # "none"
     /\ (~last.threw => last.value = last.resp.body)

\* C1 witness: an unexpired entry with another hash, by-passed: the call
\* returned fetched content that differs from the cached data.
C1_Witness ==
  /\ ContentCall
  /\ last.pre.kind = "entry"
  /\ TruthyString(last.pre.sha256)
  /\ TruthyString(last.expected)
  /\ last.expected # last.pre.sha256
  /\ PreAge < HINT_TTL_MS
  /\ last.net = 1
  /\ ~last.threw
  /\ last.value # last.pre.data

\* C2. fetchHintContent issues a network request whenever the cached content
\* entry is expired (now - timestamp >= 24 h), also when the cached sha256
\* equals the expected hash.
C2_ExpiredRefetch ==
  (/\ ContentCall
   /\ last.pre.kind = "entry"
   /\ PreAge >= HINT_TTL_MS)
  => last.net = 1

\* C2 witness: an entry exactly 24 h old whose sha256 equals the expected
\* hash, fetched again.
C2_Witness ==
  /\ ContentCall
  /\ last.pre.kind = "entry"
  /\ PreAge = HINT_TTL_MS
  /\ last.pre.sha256 = last.expected
  /\ TruthyString(last.expected)
  /\ last.net = 1

\* C3. fetchHintContent returns the cached data and issues no network request
\* whenever an entry exists, is not expired, and either no expected hash is
\* given or the cached sha256 equals it. The cache is left as it was.
C3_CacheHit ==
  (/\ ContentCall
   /\ last.pre.kind = "entry"
   /\ PreAge < HINT_TTL_MS
   /\ (~TruthyString(last.expected) \/ last.pre.sha256 = last.expected))
  => /\ last.net = 0
     /\ ~last.threw
     /\ last.value = last.pre.data
     /\ cache[last.key] = last.pre

\* C3 witness: a hit without an expected hash on an entry one millisecond
\* short of 24 h that does carry a sha256.
C3_Witness ==
  /\ ContentCall
  /\ last.pre.kind = "entry"
  /\ PreAge = HINT_TTL_MS - 1
  /\ ~TruthyString(last.expected)
  /\ TruthyString(last.pre.sha256)
  /\ last.net = 0
  /\ last.value = last.pre.data

\* C7. isExpired(timestamp, ttl) is true exactly when now - timestamp >= ttl:
\* an entry whose age is the TTL is expired, one a millisecond younger is not.
C7_IsExpired ==
  last.op = "isExpired"
  => /\ (last.value = "true") <=> (last.pre.timestamp + last.ttl <= now)
     /\ (PreAge = last.ttl => last.value = "true")
     /\ (PreAge = last.ttl - 1 => last.value = "false")

\* C7 witness: a timestamp exactly one index TTL old, found expired.
C7_Witness ==
  /\ last.op = "isExpired"
  /\ last.ttl = INDEX_TTL_MS
  /\ PreAge = last.ttl
  /\ last.value = "true"

C6_ShaIsHashOfData_AsStated ==
  \A s \in Slugs :
    LET f == cache[ContentKey(s)]
    IN (f.kind = "entry" /\ TruthyString(f.sha256)) => f.sha256 = Sha256Of(f.data)

\* the calls of fetchRegistryIndex and fetchHintMetadata in remote mode
IndexOrMetaCall ==
  /\ last.op \in {"fetchRegistryIndex", "fetchHintMetadata"}
  /\ Remote
\* a cache entry exists and is not expired
PreFreshEntry == last.pre.kind = "entry" /\ PreAge < last.ttl

\* C8, as stated. fetchRegistryIndex (key "index", 5 min) and
\* fetchHintMetadata (key hints/{slug}/meta, 24 h) return the cached data
\* without a network request when a cache entry exists and is not expired;
\* otherwise they issue an HTTP GET and, on a 2xx response, write the parsed
\* result to the key with timestamp = now and return it.
C8_IndexAndMetaCaching_AsStated ==
  IndexOrMetaCall
  => /\ last.ttl = (IF last.op = "fetchRegistryIndex" THEN INDEX_TTL_MS ELSE HINT_TTL_MS)
     /\ (PreFreshEntry
         => last.net = 0 /\ ~last.threw /\ last.value = last.pre.data)
     /\ (~PreFreshEntry
         => /\ last.net = 1
            /\ (last.resp.kind = "ok"
                => /\ ~last.threw
                   /\ last.value = last.resp.body
                   /\ cache[last.key] = File("entry", last.resp.body, now, Undefined)))

\* the three fetch operations in remote mode
FetchCall ==
  /\ last.op \in {"fetchRegistryIndex", "fetchHintMetadata", "fetchHintContent"}
  /\ Remote

\* C9, as stated. Whatever the state of the cache (entry missing, unreadable,
\* corrupted, or the directory not writable) the three fetch operations fall
\* back to the network and, when the network answers 2xx, return the fetched
\* data without an error.
C9_CacheIsOnlyAnOptimization_AsStated ==
  /\ (FetchCall /\ last.pre.kind # "entry")
     => last.net = 1
  /\ (FetchCall /\ last.net = 1 /\ last.resp.kind = "ok")
     => ~last.threw /\ last.value = last.resp.body

\* C10, as stated. readCache yields null for a missing file, an I/O error or
\* a malformed payload (anything that is not a CacheEntry with data and
\* timestamp); invalidateCache and clearCache complete normally whatever the
\* delete does; none of the three throws.
C10_CacheFailuresAbsorbed_AsStated ==
  /\ (last.op = "readCache" /\ last.pre.kind # "entry") => last.value = "null"
  /\ last.op \in {"readCache", "invalidateCache", "clearCache"} => ~last.threw

\* a call of op starts in this step (its record is in last')
Calls(op) == last = NoCall /\ last'.op = op

\* C11: when fetchHintMetadata gets a 404 it throws the not-found error,
\* whose message names the hint and suggests "agenthints list"; on any other
\* non-2xx status it throws the generic error with the status text, a
\* different message; in both cases no value is returned and the cache
\* directory is as it was before the call.
C11_MetadataHttpErrors ==
  [][(Calls("fetchHintMetadata") /\ Remote /\ last'.net = 1
        /\ last'.resp.kind \in {"notfound", "error"})
     => /\ last'.threw
        /\ last'.value = Undefined
        /\ cache' = cache
        /\ last'.resp.kind = "notfound" =>
             /\ last'.error = "NotFound"
             /\ Len(last'.message) = 4
             /\ last'.message[2] = last'.hintPath
             /\ last'.message[4] = "Run agenthints list to see available hints."
        /\ last'.resp.kind = "error" =>
             /\ last'.error = "FetchError"
             /\ last'.message = <<"Failed to fetch hint metadata:", "Internal Server Error">>]_vars

\* fetchHintMetadata found an expired entry, asked the registry and got a 404:
\* it threw the not-found error and the expired entry is still there
C11_Witness ==
  /\ last.op = "fetchHintMetadata"
  /\ Remote
  /\ last.resp.kind = "notfound"
  /\ last.error = "NotFound"
  /\ last.message[2] = "prisma"
  /\ last.pre.kind = "entry"
  /\ cache[last.key] = last.pre

\* C12: with the local registry set, a call of fetchRegistryIndex,
\* fetchHintMetadata or fetchHintContent issues no request and attempts no
\* cache write, leaves the cache directory as it was, and its result is the
\* read of the mirror file alone: the file's content when the read gives
\* one, an error otherwise, whatever the cache holds.
C12_LocalRegistryBypassesCache ==
  [][((Calls("fetchRegistryIndex") \/ Calls("fetchHintMetadata") \/ Calls("fetchHintContent"))
        /\ LOCAL_REGISTRY)
     => /\ cache' = cache
        /\ last'.net = 0
        /\ last'.disk = NoDisk
        /\ last'.resp.kind \in {"ok", "enoent", "badbody"}
        /\ last'.resp.kind = "ok" => (~last'.threw /\ last'.value = last'.resp.body)
        /\ last'.resp.kind # "ok" => (last'.threw /\ last'.value = Undefined)]_vars

\* local mode, a cache file that remote mode would serve (the {} file of
\* C10) under the key of the call, and the call returned the mirror's content
C12_Witness ==
  /\ LOCAL_REGISTRY
  /\ last.op \in {"fetchRegistryIndex", "fetchHintMetadata", "fetchHintContent"}
  /\ last.pre.kind = "noshape"
  /\ cache[last.key] = last.pre
  /\ ~last.threw
  /\ last.value \in Indexes \cup Metadatas \cup Contents

(***************************************************************************)
(* Properties of the add command.                                          *)
(***************************************************************************)
\* the file add writes a hint to
TargetOf(hintPath) == resolvePath(resolveAgentPath(agents[agent], hintPath)).path
\* the hint bodies a text holds
BodiesIn(fileContent) ==
  {c \in Contents : \E k \in 1..Len(fileContent) : fileContent[k] = Plain(c)}
\* promise i got a hint body whose digest is not the one the index declares
Mismatched(i) ==
  /\ tasks[i].fetched # Undefined
  /\ Sha256Of(tasks[i].fetched) # IndexSha(registryHints, tasks[i].hintPath)

\* C5: add writes a hint body to a target file only when the SHA-256 of the
\* body equals the sha256 the registry index declares for the hint: every
\* hint body found in a target file, and every body handed to writeFile,
\* has the digest the index declares for a hint of this run whose target the
\* file is. A hint whose fetched body has another digest ends with an error
\* result and the write loop calls writeFile for it not once, so its
\* processing leaves the target file as it was.
C5_OnlyVerifiedContentWritten ==
  /\ \A p \in TargetPaths : \A c \in BodiesIn(files[p].text) :
       \E i \in 1..Len(hintPaths) :
         /\ TargetOf(hintPaths[i]) = p
         /\ Sha256Of(c) = IndexSha(registryHints, hintPaths[i])
  /\ \A k \in 1..Len(writes) :
       /\ Sha256Of(writes[k].hintContent) = IndexSha(registryHints, writes[k].hintPath)
       /\ writes[k].path = TargetOf(writes[k].hintPath)
  /\ \A i \in 1..Len(tasks) :
       Mismatched(i) =>
         /\ tasks[i].status = "error"
         /\ tasks[i].message = "IntegrityError"
         /\ \A k \in 1..Len(writes) : writes[k].index # i

\* a run in which the body fetched for a hint has the wrong digest, the write
\* loop has gone past that hint, and the run has ended
C5_Witness ==
  /\ addPc = "exited"
  /\ \E i \in 1..Len(tasks) :
       /\ Mismatched(i)
       /\ tasks[i].message = "IntegrityError"
       /\ cursor > i
  /\ files \in EarlierDirs
  /\ failureCount >= 1

(***************************************************************************)
(* Properties of the section transformer.                                  *)
(***************************************************************************)
\* where a token occurs in a text (1-based)
Positions(t, token) == {i \in 1..Len(t) : t[i] = token}
\* a well-formed section of a hint: the start marker first, the end marker
\* last, neither marker anywhere else
WellFormed(section, hintName) ==
  /\ Positions(section, SectionStart(hintName)) = {1}
  /\ Positions(section, SectionEnd(hintName)) = {Len(section)}
\* the text holds a section for the hint: both markers occur, and the first
\* start marker comes before the first end marker
HoldsSection(t, hintName) ==
  \E i \in Positions(t, SectionStart(hintName)) :
    \E j \in Positions(t, SectionEnd(hintName)) :
      /\ i < j
      /\ \A k \in Positions(t, SectionEnd(hintName)) : j <= k
Upserted == edit.op = "upsertSection" /\ WellFormed(edit.newSection, edit.hintName)

\* C13 as stated: after upsertSection(F, slug, S) with a well-formed S,
\* extractSection of the result for slug returns S.
C13_UpsertExtractRoundTrip_AsStated ==
  Upserted =>
    LET r == extractSection(text, edit.hintName)
    IN r.found /\ r.section = edit.newSection

\* C14 as stated: removing the section of a hint from the result of
\* removeSection for that hint changes nothing.
C14_RemoveIdempotent_AsStated ==
  edit.op = "removeSection" => removeSection(text, edit.hintName) = text

\* C15 as stated: when F holds a section for slug, upsertSection(F, slug, S)
\* is the text of F before the section, then S as given, then the text of F
\* after the section.
C15_ReplacedInPlace_AsStated ==
  (Upserted /\ HoldsSection(edit.before, edit.hintName)) =>
    \E i \in Positions(edit.before, SectionStart(edit.hintName)) :
      \E j \in Positions(edit.before, SectionEnd(edit.hintName)) :
        /\ \A k \in Positions(edit.before, SectionStart(edit.hintName)) : i <= k
        /\ \A k \in Positions(edit.before, SectionEnd(edit.hintName)) : j <= k
        /\ text = SubSeq(edit.before, 1, i - 1) \o edit.newSection
                    \o SubSeq(edit.before, j + 1, Len(edit.before))

\* C16: when F holds no section for slug, upsertSection(F, slug, S) is S if
\* F is empty or all whitespace, and otherwise F without its leading and
\* trailing whitespace, then two newlines, then S.
C16_AppendedAfterBlankLine ==
  (Upserted /\ ~HoldsSection(edit.before, edit.hintName)) =>
    IF \A k \in 1..Len(edit.before) : edit.before[k] \in Whitespace
    THEN text = edit.newSection
    ELSE \E i \in 1..Len(edit.before) : \E j \in i..Len(edit.before) :
           /\ \A k \in 1..(i - 1) : edit.before[k] \in Whitespace
           /\ \A k \in (j + 1)..Len(edit.before) : edit.before[k] \in Whitespace
           /\ edit.before[i] \notin Whitespace
           /\ edit.before[j] \notin Whitespace
           /\ text = SubSeq(edit.before, i, j) \o <<NL, NL>> \o edit.newSection

\* a section was appended to a text that ends in whitespace and holds a lone
\* end marker of the hint
C16_Witness ==
  /\ Upserted
  /\ edit.before = <<SectionEnd(edit.hintName), NL>>
  /\ text = <<SectionEnd(edit.hintName), NL, NL>> \o edit.newSection

\* C17 as stated: upsertSection with the same hint and section, applied to
\* its own result, changes nothing.
C17_UpsertIdempotent_AsStated ==
  Upserted => upsertSection(text, edit.hintName, edit.newSection) = text

\* C18 as stated: when A's section is removed from a text that also holds a
\* section of another hint B, not overlapping A's, extractSection for B gives
\* the same section after the removal as before.
SectionSpan(t, hintName) ==
  LET startIndex == IndexOf(t, SectionStart(hintName))
      endIndex == IndexOf(t, SectionEnd(hintName))
  IN (startIndex + 1)..(endIndex + 1)
C18_RemoveKeepsOtherSections_AsStated ==
  \A other \in RegistrySlugs :
    (/\ edit.op = "removeSection"
     /\ other # edit.hintName
     /\ HoldsSection(edit.before, edit.hintName)
     /\ HoldsSection(edit.before, other)
     /\ SectionSpan(edit.before, edit.hintName) \cap SectionSpan(edit.before, other) = {})
    => extractSection(text, other) = extractSection(edit.before, other)

\* C19 as stated: a text with at most one start marker and at most one end
\* marker for every hint still has at most one of each after upsertSection
\* (with a well-formed section) or removeSection.
AtMostOneOfEach(t) ==
  \A h \in RegistrySlugs :
    /\ Cardinality(Positions(t, SectionStart(h))) <= 1
    /\ Cardinality(Positions(t, SectionEnd(h))) <= 1
C19_AtMostOneSectionPerSlug_AsStated ==
  ((Upserted \/ edit.op = "removeSection") /\ AtMostOneOfEach(edit.before))
    => AtMostOneOfEach(text)

\* C20: extractSection(F, slug) finds a section exactly when both markers
\* occur in F and the first start marker comes before the first end marker,
\* and then returns F from the first start marker to the first end marker,
\* both included.
C20_ExtractFirstToFirst ==
  edit.op = "extractSection" =>
    LET starts == Positions(edit.before, SectionStart(edit.hintName))
        ends == Positions(edit.before, SectionEnd(edit.hintName))
    IN /\ edit.found <=>
            /\ starts # {}
            /\ ends # {}
            /\ \E i \in starts : \E j \in ends :
                 /\ \A k \in starts : i <= k
                 /\ \A k \in ends : j <= k
                 /\ i < j
       /\ edit.found =>
            \E i \in starts : \E j \in ends :
              /\ \A k \in starts : i <= k
              /\ \A k \in ends : j <= k
              /\ edit.result = SubSeq(edit.before, i, j)

\* extractSection on a text with two sections of the hint returned the first
C20_Witness ==
  /\ edit.op = "extractSection"
  /\ edit.found
  /\ Cardinality(Positions(edit.before, SectionEnd(edit.hintName))) = 2
  /\ Cardinality(Positions(edit.before, SectionStart(edit.hintName))) = 2
  /\ Len(edit.result) < Len(edit.before)
  /\ WellFormed(edit.result, edit.hintName)

\* C21: removeSection(F, slug) is F itself when F holds no section for slug;
\* otherwise it is F without the span from the first start marker to the
\* first end marker, with every run of three or more newlines made two, and
\* without leading and trailing whitespace: no three newlines in a row are
\* left, and no whitespace at either end.
NewlineRunAt(t, i, n) == i + n - 1 <= Len(t) /\ \A k \in i..(i + n - 1) : t[k] = NL
NoLongNewlineRun(t) == \A i \in 1..Len(t) : ~NewlineRunAt(t, i, 3)
NoOuterWhitespace(t) == t = EmptyText \/ (t[1] \notin Whitespace /\ t[Len(t)] \notin Whitespace)
Rendered == edit.op = "transformForAgent"
HeaderText(a, hintName) ==
  CASE a.header.kind = "function" -> <<HeaderOf(a.key, hintName)>>
    [] a.header.kind = "static" -> a.header.text
    [] OTHER -> EmptyText
HeaderThenTransform(a, hintName, content) ==
  LET h == HeaderText(a, hintName)
      seen == IF h # EmptyText THEN h \o <<NL, NL>> \o content ELSE content
  IN IF a.transform = "bracket" THEN <<Plain("[")>> \o seen \o <<Plain("]")>> ELSE seen
C22_HeaderTransformWrapOrder ==
  Rendered =>
    LET transformed == HeaderThenTransform(edit.agent, edit.hintName, edit.before)
    IN IF edit.agent.appendMode
       THEN edit.result = <<SectionStart(edit.hintName), NL>> \o transformed
                            \o <<NL, SectionEnd(edit.hintName)>>
       ELSE edit.result = transformed

\* an append-mode agent with a header and a transform rendered a hint
C22_Witness ==
  /\ Rendered
  /\ edit.agent.appendMode
  /\ edit.agent.header.kind = "static"
  /\ edit.agent.header.text # EmptyText
  /\ edit.agent.transform = "bracket"
  /\ edit.before = <<Plain("a")>>
  /\ edit.result = <<SectionStart(edit.hintName), NL, Plain("["), Plain("---"), NL, NL,
                     Plain("a"), Plain("]"), NL, SectionEnd(edit.hintName)>>

\* C23 as stated: with appendMode the rendered content holds the start and
\* the end marker of the slug; without appendMode it holds no section marker,
\* whatever the content.
IsMarker(token) == token[1] \in {"start", "end"}
HasMarker(t) == \E i \in 1..Len(t) : IsMarker(t[i])
C23_MarkersIffAppendMode_AsStated ==
  Rendered =>
    IF edit.agent.appendMode
    THEN /\ Positions(edit.result, SectionStart(edit.hintName)) # {}
         /\ Positions(edit.result, SectionEnd(edit.hintName)) # {}
    ELSE ~HasMarker(edit.result)

\* C23 amended: with appendMode the rendered content holds both markers of
\* the slug; without appendMode it holds no section marker when the hint
\* content and the header hold none.
C23_MarkersOnlyFromWrap ==
  Rendered =>
    IF edit.agent.appendMode
    THEN /\ Positions(edit.result, SectionStart(edit.hintName)) # {}
         /\ Positions(edit.result, SectionEnd(edit.hintName)) # {}
    ELSE (~HasMarker(edit.before) /\ ~HasMarker(HeaderText(edit.agent, edit.hintName)))
           => ~HasMarker(edit.result)

\* a hint without markers was rendered for an agent that writes a file per
\* hint, with a header and a transform
C23_Witness ==
  /\ Rendered
  /\ ~edit.agent.appendMode
  /\ edit.agent.header.kind = "function"
  /\ edit.agent.transform = "bracket"
  /\ edit.before = <<Dollar, Ampersand>>
  /\ ~HasMarker(edit.result)

\* C30: in every row of the agent table the path holds the {hint}
\* placeholder exactly when appendMode is false; so an agent that writes a
\* file per hint resolves different hints to different paths, and an agent
\* that appends resolves every hint to the same path.
HasPlaceholder(path) == \E i \in 1..Len(path) : path[i] = "{hint}"
C30_PlaceholderIffPerHintFile ==
  /\ \A a \in agentNames : HasPlaceholder(agents[a].path) <=> ~agents[a].appendMode
  /\ edit.op = "resolveAgentPath" =>
       \A other \in RegistrySlugs \ {edit.hintName} :
         LET otherPath == PathText(resolveAgentPath(edit.agent, other))
         IN IF edit.agent.appendMode THEN edit.result = otherPath
            ELSE edit.result # otherPath

\* the path of an agent that writes a file per hint was resolved
C30_Witness ==
  /\ edit.op = "resolveAgentPath"
  /\ edit.agent.key = "windsurf"
  /\ edit.result = <<Plain(".windsurf/"), Plain("rules/"), Plain(edit.hintName), Plain(".md")>>

\* C24 as stated: in append mode, when the section of the hint is found in
\* the target file, the file is deleted if nothing but whitespace is left
\* after the removal and otherwise holds the text removeSection returns; it
\* is never left as an empty file.
RemoveTarget == resolvePath(resolveAgentPath(agents[agent], hintPaths[cursor])).path
Blank(t) == \A k \in 1..Len(t) : t[k] \in Whitespace
\* the text without its first section of the hint, newline runs cut, trimmed
Remainder(t, hintName) ==
  LET i == CHOOSE k \in Positions(t, SectionStart(hintName)) :
             \A m \in Positions(t, SectionStart(hintName)) : k <= m
      j == CHOOSE k \in Positions(t, SectionEnd(hintName)) :
             \A m \in Positions(t, SectionEnd(hintName)) : k <= m
  IN Trim(CollapseNewlines(SubSeq(t, 1, i - 1) \o SubSeq(t, j + 1, Len(t))))
RemovingFromSharedFile ==
  /\ addPc = "removing"
  /\ cursor <= Len(hintPaths)
  /\ AppendMode(agent)
  /\ ~resolvePath(resolveAgentPath(agents[agent], hintPaths[cursor])).threw
  /\ files[RemoveTarget].exists
  /\ HoldsSection(files[RemoveTarget].text, hintPaths[cursor])
LeadsOutside(absolutePath) ==
  LET dir == resolve(BaseDir, Tail(absolutePath))
  IN \E i \in 1..Len(BaseDir) : i > Len(dir) \/ dir[i] # BaseDir[i]
C25_NothingTouchedOutsideCwd ==
  [][/\ \A p \in TargetPaths : LeadsOutside(p) =>
          /\ files'[p] = files[p]
          /\ resolvePath(Tail(p)).threw
     /\ \A k \in 1..Len(writes') : ~LeadsOutside(writes'[k].path)]_vars

\* add stopped at a fetched hint whose path for the agent leaves the working
\* directory
C25_Witness ==
  /\ addPc = "exited"
  /\ exitCode = "1"
  /\ agent = "cursor"
  /\ cursor <= Len(tasks)
  /\ tasks[cursor].status = "success"
  /\ tasks[cursor].hintPath = EscapingSlug
  /\ LeadsOutside(resolvePath(resolveAgentPath(agents[agent], EscapingSlug)).path)

\* C26 as stated: when the target of a fetched hint of an add invocation
\* leaves the working directory, the invocation fails and has written no
\* target file.
C26_EscapeBeforeAnyWrite_AsStated ==
  (/\ addPc = "exited"
   /\ \E i \in 1..Len(tasks) :
        /\ tasks[i].status = "success"
        /\ LeadsOutside(resolvePath(resolveAgentPath(agents[agent], tasks[i].hintPath)).path))
  => (exitCode = "1" /\ writes = <<>>)

\* C27: in add no target file is read or written, and no result is
\* processed, before the fetch of every requested hint has ended in a
\* success or an error.
C27_WritesAfterAllFetches ==
  (Len(writes) > 0 \/ cursor > 1 \/ addPc = "writing") =>
    \A i \in 1..Len(tasks) : tasks[i].pc = "done" /\ tasks[i].status \in {"success", "error"}

\* the first hint was written although its fetch ended before the fetch of
\* the second, which failed
C27_Witness ==
  /\ Len(tasks) = 2
  /\ Len(writes) = 1
  /\ writes[1].index = 1
  /\ tasks[2].status = "error"
  /\ tasks[2].message # "NotInRegistry"
  /\ cursor = 2

\* C28: the rounds of the write loop run one after the other, each on the
\* file the round before left: when add ends with every one of its hints
\* written to the shared file of an append-mode agent, the file holds, for
\* every hint, the section rendered from the content fetched for it.
SectionOfTask(t) ==
  transformForAgent(TextOf(t.hintContent), t.hintPath, agents[agent],
                    resolveAgentPath(agents[agent], t.hintPath)).content
AllAdded ==
  /\ addPc = "exited"
  /\ Len(tasks) > 0
  /\ successCount = Len(tasks)
LastTaskOf(hintPath) ==
  CHOOSE i \in 1..Len(tasks) :
    tasks[i].hintPath = hintPath /\ \A j \in 1..Len(tasks) : tasks[j].hintPath = hintPath => j <= i
C28_NoLostUpdate ==
  (AllAdded /\ AppendMode(agent)) =>
    \A i \in 1..Len(tasks) :
      LET r == extractSection(files[TargetOf(tasks[i].hintPath)].text, tasks[i].hintPath)
      IN r.found /\ r.section = SectionOfTask(tasks[LastTaskOf(tasks[i].hintPath)])

\* two different hints were added to a shared file that existed before
C28_Witness ==
  /\ AllAdded
  /\ AppendMode(agent)
  /\ Len(tasks) = 2
  /\ tasks[1].hintPath # tasks[2].hintPath
  /\ Len(writes) = 2
  /\ HoldsSection(files[TargetOf("prisma")].text, "prisma")
  /\ HoldsSection(files[TargetOf("prisma")].text, "zod")
  /\ files[TargetOf("prisma")].text[1] = Plain("notes")

\* C29 as stated: when add ends after the index was fetched, it exits with 1
\* exactly when no hint was written, whatever happened to the other hints;
\* and when it exits with 0 every result was processed, the counts add up to
\* the number of hints, and a hint is counted as added exactly when its
\* write succeeded.
OkWrites == {k \in 1..Len(writes) : writes[k].ok}
C29_FailureIsolation_AsStated ==
  (addPc = "exited" /\ Len(tasks) > 0) =>
    /\ exitCode = "1" <=> Cardinality(OkWrites) = 0
    /\ exitCode = "0" =>
         /\ cursor = Len(tasks) + 1
         /\ successCount + failureCount = Len(hintPaths)
         /\ successCount = Cardinality(OkWrites)
         /\ \A k \in 1..Len(writes) : tasks[writes[k].index].status = "success"

\* C31: a search that returns gives exactly the entries of the fetched index
\* in which the lower-cased query is a substring of the lower-cased path,
\* name, description, category or of a tag, in index order: the k-th entry
\* returned is the k-th matching entry of the index.
IsSubstring(q, s) ==
  \E from \in 0..(Len(s) - Len(q)) : SubSeq(s, from + 1, from + Len(q)) = q
QueryMatches(query, hint) ==
  LET q == toLowerCase(query)
  IN \/ \E field \in {hint.path, hint.name, hint.description, hint.category} :
          IsSubstring(q, toLowerCase(field))
     \/ \E t \in 1..Len(hint.tags) : IsSubstring(q, toLowerCase(hint.tags[t]))
MatchingPositions(call) ==
  {i \in 1..Len(call.hints) : QueryMatches(call.query, call.hints[i])}
C31_SearchFiltersInIndexOrder ==
  \A n \in 1..Len(search) :
    LET call == search[n]
        M == MatchingPositions(call)
    IN ~call.threw =>
         /\ Len(call.result) = Cardinality(M)
         /\ \A k \in 1..Len(call.result) :
              \E i \in M : /\ Cardinality({j \in M : j < i}) = k - 1
                           /\ call.result[k] = call.hints[i]
\* a search whose query differs in case from the tag it matches, over an
\* index of two different entries of which only the second matches
C31_Witness ==
  \E n \in 1..Len(search) :
    /\ ~search[n].threw
    /\ search[n].query = <<"s", "q", "l">>
    /\ Len(search[n].hints) = 2
    /\ MatchingPositions(search[n]) = {2}
    /\ search[n].result = <<search[n].hints[2]>>

\* C32 as stated: resolving a path puts the hint name, as it is, in the
\* place of the first {hint} of the path and leaves the rest of the path as
\* it was; a path without {hint} is returned unchanged, whatever the name.
FirstPlaceholder(path) ==
  CHOOSE i \in 1..Len(path) : path[i] = "{hint}" /\ \A j \in 1..(i - 1) : path[j] # "{hint}"
C32_FirstPlaceholderReplacedBySlug_AsStated ==
  edit.op = "resolveAgentPath" =>
    LET path == edit.agent.path
    IN IF HasPlaceholder(path)
       THEN edit.result = PathText(SubSeq(path, 1, FirstPlaceholder(path) - 1))
                          \o HintNameText(edit.hintName)
                          \o PathText(SubSeq(path, FirstPlaceholder(path) + 1, Len(path)))
       ELSE edit.result = PathText(path)

\* C33: a fetch of the index, of a metadata document or of a hint content
\* that fails on the network (no response, a non-2xx status, a body that
\* cannot be read or parsed) or on the read of the local mirror leaves
\* every file of the cache directory as it was.
FetchOps == {"fetchRegistryIndex", "fetchHintMetadata", "fetchHintContent"}
FailedFetch(call) ==
  /\ call.op \in FetchOps
  /\ call.resp.kind \in {"neterr", "notfound", "error", "badbody", "enoent"}
C33_FailedFetchLeavesCache ==
  [][(last' # last /\ FailedFetch(last')) => (last'.threw /\ cache' = cache)]_vars
\* a fetch of a hint content failed on a non-2xx status while the cache held
\* an expired entry for the hint, and the entry is still there
C33_Witness ==
  /\ last.op = "fetchHintContent"
  /\ last.resp.kind = "error"
  /\ last.pre.kind = "entry"
  /\ isExpired(last.pre.timestamp, HINT_TTL_MS, now)
  /\ cache[last.key] = last.pre

\* C34 as stated: a content that was fetched under the expected hash h and
\* does not hash to h (the content add rejects) is not served again: while
\* the cache holds it unexpired, a fetch of the hint's content with the same
\* expected hash goes to the network.
C34_RejectedContentNotServed_AsStated ==
  (/\ ~LOCAL_REGISTRY
   /\ last.op = "fetchHintContent"
   /\ TruthyString(last.expected)
   /\ last.pre.kind = "entry"
   /\ last.pre.sha256 = last.expected
   /\ Sha256Of(last.pre.data) # last.expected
   /\ ~isExpired(last.pre.timestamp, HINT_TTL_MS, now))
  => last.net = 1

\* C35 as stated: when a section of a hint is upserted into a file text F
\* that holds no marker of the hint, has no whitespace at either end and no
\* run of three or more newlines, then, after any number of further upserts
\* of that hint, removing the hint's section gives F back.
CleanFor(t, hintName) ==
  /\ Positions(t, SectionStart(hintName)) = {}
  /\ Positions(t, SectionEnd(hintName)) = {}
  /\ NoOuterWhitespace(t)
  /\ NoLongNewlineRun(t)
\* edits i..j are a cycle on one hint: an add to a clean text, updates, a remove
IsCycle(i, j) ==
  /\ i < j
  /\ edits[i].op = "upsertSection"
  /\ CleanFor(edits[i].before, edits[i].hintName)
  /\ \A k \in (i + 1)..(j - 1) :
       edits[k].op = "upsertSection" /\ edits[k].hintName = edits[i].hintName
  /\ edits[j].op = "removeSection"
  /\ edits[j].hintName = edits[i].hintName
C35_AddThenRemoveRestores_AsStated ==
  \A i \in 1..Len(edits), j \in 1..Len(edits) :
    IsCycle(i, j) => edits[j].result = edits[i].before

\* C36: add processes the results in the order of its arguments, whatever
\* the order the fetches ended in: the writes are made in argument order,
\* and when every hint was added to the shared file of an append-mode agent,
\* the sections of two different hints stand in the file in the order the
\* hints were given.
C36_SectionsInArgumentOrder ==
  /\ \A k \in 1..Len(writes) : \A l \in 1..(k - 1) :
       /\ writes[l].index < writes[k].index
       /\ writes[k].hintPath = hintPaths[writes[k].index]
  /\ (AllAdded /\ AppendMode(agent)) =>
       \A i \in 1..Len(tasks) : \A j \in (i + 1)..Len(tasks) :
         hintPaths[i] # hintPaths[j] =>
           LET fileContent == files[TargetOf(hintPaths[i])].text
           IN /\ IndexOf(fileContent, SectionStart(hintPaths[i])) >= 0
              /\ IndexOf(fileContent, SectionStart(hintPaths[i]))
                   < IndexOf(fileContent, SectionStart(hintPaths[j]))
\* both hints were added to the shared file in argument order although the
\* fetch of the second hint ended before the fetch of the first
C36_Witness ==
  /\ AllAdded
  /\ AppendMode(agent)
  /\ Len(tasks) = 2
  /\ hintPaths[1] # hintPaths[2]
  /\ tasks[2].order < tasks[1].order
  /\ IndexOf(files[TargetOf(hintPaths[1])].text, SectionStart(hintPaths[1]))
       < IndexOf(files[TargetOf(hintPaths[1])].text, SectionStart(hintPaths[2]))

\* C37 as stated: a hint content that fetchHintContent returns from the
\* cache, without a request, is a content the registry serves for the hint
\* file the call names.
C37_CacheHitIsSameFile_AsStated ==
  (/\ ~LOCAL_REGISTRY
   /\ last.op = "fetchHintContent"
   /\ ~last.threw
   /\ last.net = 0
   /\ last.pre.kind = "entry")
  => IF last.hintFile = "./hint.md" THEN last.value \in Contents ELSE last.value = "c3"

\* C38 as stated: whenever another invocation clears the cache while a
\* fetch of a hint content writes its cache entry, the fetch whose response
\* arrived with a body returns that body: it does not throw and does not
\* return something else.
C38_ClearCacheRaceOnlyLosesWrite_AsStated ==
  (tasks # <<>> /\ tasks[1].pc = "done" /\ tasks[1].fetched # Undefined) =>
    /\ tasks[1].status = "success"
    /\ tasks[1].hintContent = tasks[1].fetched
====
